---------------------------- MODULE Spec2Model ----------------------------
(***************************************************************************)
(* A model of the evaluator of RCL (src/src/eval.rs): eval, eval_seq,      *)
(* eval_unop, eval_binop, the SeqOut accumulator and the builtins.         *)
(*                                                                         *)
(* The recursive functions eval and eval_seq are modelled as a machine     *)
(* with an explicit call stack: one frame per call in progress, holding    *)
(* the node being evaluated, the position reached inside its match arm     *)
(* and the arm's locals.  There is one action per match arm.               *)
(*                                                                         *)
(* Tagged data (values, AST nodes, results, accumulators) are tuples       *)
(* whose first component is the variant's name.                            *)
(***************************************************************************)
EXTENDS Integers, Sequences, FiniteSets, TLC

VARIABLES
    prog,     \* the expression handed to eval
    env0,     \* the environment as the caller handed it to eval
    env,      \* the environment: a stack of <<ident, value>> bindings
    stack,    \* the call stack of eval / eval_seq frames
    outs,     \* the SeqOut accumulators of the literals in progress
    ret,      \* the result handed back by the call that returned last
    trace,    \* history: every call of eval / eval_seq, <<"eval", path>>, and
              \* every return from one, <<"ret", path, result>>, in order
    calls,    \* history: every invocation of a builtin, <<name, args>>
    binop_in  \* the arguments of a direct call of eval_binop

vars == <<prog, env0, env, stack, outs, ret, trace, calls, binop_in>>

---------------------------------------------------------------------------
(* 64-bit signed integers.  TLC's own integers are 32 bits wide, so an i64  *)
(* is kept as a sign and a magnitude of base-10000 digits, least            *)
(* significant first, without leading zero digits.                          *)

Base == 10000

RECURSIVE MagOfNat(_)
MagOfNat(n) == IF n = 0 THEN <<>> ELSE <<n % Base>> \o MagOfNat(n \div Base)

Big(n) == [neg |-> n < 0, mag |-> MagOfNat(IF n < 0 THEN -n ELSE n)]

RECURSIVE MagTrim(_)
MagTrim(a) ==
    IF a = <<>> THEN <<>>
    ELSE IF a[Len(a)] = 0 THEN MagTrim(SubSeq(a, 1, Len(a) - 1))
    ELSE a

MagDigit(a, i) == IF i <= Len(a) THEN a[i] ELSE 0

MaxOf(m, n) == IF m >= n THEN m ELSE n

RECURSIVE MagAddFrom(_, _, _, _)
MagAddFrom(a, b, i, carry) ==
    IF i > MaxOf(Len(a), Len(b))
    THEN (IF carry = 0 THEN <<>> ELSE <<carry>>)
    ELSE LET s == MagDigit(a, i) + MagDigit(b, i) + carry
         IN  <<s % Base>> \o MagAddFrom(a, b, i + 1, s \div Base)

MagAdd(a, b) == MagAddFrom(a, b, 1, 0)

\* a - b for a >= b
RECURSIVE MagSubFrom(_, _, _, _)
MagSubFrom(a, b, i, borrow) ==
    IF i > Len(a) THEN <<>>
    ELSE LET d == MagDigit(a, i) - MagDigit(b, i) - borrow
         IN  IF d < 0
             THEN <<d + Base>> \o MagSubFrom(a, b, i + 1, 1)
             ELSE <<d>> \o MagSubFrom(a, b, i + 1, 0)

MagSub(a, b) == MagTrim(MagSubFrom(a, b, 1, 0))

\* -1, 0, 1 as a is less than, equal to, greater than b
RECURSIVE MagCmpFrom(_, _, _)
MagCmpFrom(a, b, i) ==
    IF i = 0 THEN 0
    ELSE IF a[i] < b[i] THEN -1
    ELSE IF a[i] > b[i] THEN 1
    ELSE MagCmpFrom(a, b, i - 1)

MagCmp(a, b) ==
    IF Len(a) < Len(b) THEN -1
    ELSE IF Len(a) > Len(b) THEN 1
    ELSE MagCmpFrom(a, b, Len(a))

RECURSIVE MagMulDigitFrom(_, _, _, _)
MagMulDigitFrom(a, d, i, carry) ==
    IF i > Len(a)
    THEN (IF carry = 0 THEN <<>> ELSE <<carry>>)
    ELSE LET p == a[i] * d + carry
         IN  <<p % Base>> \o MagMulDigitFrom(a, d, i + 1, p \div Base)

RECURSIVE MagMulFrom(_, _, _)
MagMulFrom(a, b, j) ==
    IF j > Len(b) THEN <<>>
    ELSE MagAdd(MagMulDigitFrom(a, b[j], 1, 0),
                <<0>> \o MagMulFrom(a, b, j + 1))

MagMul(a, b) == MagTrim(MagMulFrom(a, b, 1))

BigNorm(neg, mag) == [neg |-> neg /\ mag # <<>>, mag |-> mag]

\* the mathematical sum and product
BigAdd(x, y) ==
    IF x.neg = y.neg THEN BigNorm(x.neg, MagAdd(x.mag, y.mag))
    ELSE IF MagCmp(x.mag, y.mag) >= 0
         THEN BigNorm(x.neg, MagSub(x.mag, y.mag))
         ELSE BigNorm(y.neg, MagSub(y.mag, x.mag))

BigMul(x, y) == BigNorm(x.neg # y.neg, MagMul(x.mag, y.mag))

BigCmp(x, y) ==
    IF x.neg /\ ~y.neg THEN -1
    ELSE IF ~x.neg /\ y.neg THEN 1
    ELSE IF x.neg THEN MagCmp(y.mag, x.mag)
    ELSE MagCmp(x.mag, y.mag)

\* i64::MAX = 9223372036854775807 and i64::MIN = -9223372036854775808
I64Max == [neg |-> FALSE, mag |-> <<5807, 5477, 368, 3372, 922>>]
I64Min == [neg |-> TRUE, mag |-> <<5808, 5477, 368, 3372, 922>>]

InI64(z) == BigCmp(I64Min, z) <= 0 /\ BigCmp(z, I64Max) <= 0

\* Option<i64>
Some(z) == <<"Some", z>>
NoneI64 == <<"None">>

\* i64::saturating_add / i64::saturating_mul: what an unchecked operation
\* that clamps would return
Saturate(z) ==
    IF InI64(z) THEN Some(z)
    ELSE IF z.neg THEN Some(I64Min) ELSE Some(I64Max)

saturating_add(x, y) == Saturate(BigAdd(x, y))

saturating_mul(x, y) == Saturate(BigMul(x, y))

\* i64::checked_add: the sum, or None when it does not fit 64 bits
checked_add(x, y) ==
    LET z == BigAdd(x, y) IN IF InI64(z) THEN Some(z) ELSE NoneI64

\* i64::checked_mul
checked_mul(x, y) ==
    LET z == BigMul(x, y) IN IF InI64(z) THEN Some(z) ELSE NoneI64

---------------------------------------------------------------------------
(* Values (runtime::Value).                                                *)

VBool(b) == <<"Bool", b>>
VInt(i) == <<"Int", i>>
VString(s) == <<"String", s>>
VList(xs) == <<"List", xs>>       \* xs: a sequence of values
VSet(xs) == <<"Set", xs>>         \* xs: a set of values
VMap(m) == <<"Map", m>>           \* m: a function from keys to values
VBuiltin(name, closed) == <<"Builtin", [name |-> name, closed |-> closed]>>

EmptyMap == [k \in {} |-> k]

\* BTreeMap::insert
MapInsert(m, k, v) ==
    [x \in DOMAIN m \cup {k} |-> IF x = k THEN v ELSE m[x]]

\* the elements of a sequence, as a set
Range(s) == {s[i] : i \in DOMAIN s}

---------------------------------------------------------------------------
(* Results and errors.  Ok(()) of eval_seq carries Unit.                   *)

NoSpan == <<>>

Ok(v) == <<"Ok", v>>
Err(e) == <<"Err", e>>
Panic(msg) == <<"Panic", msg>>
None == <<"None">>
Unit == <<"Unit">>

IsOk(r) == r[1] = "Ok"
IsErr(r) == r[1] = "Err"
IsPanic(r) == r[1] = "Panic"

\* "message".into(): an error with a message only
Error(msg) == [msg |-> msg, span |-> NoSpan, note |-> NoSpan, help |-> ""]
\* span.error(message)
SpanError(span, msg) == [msg |-> msg, span |-> span, note |-> NoSpan, help |-> ""]
\* .with_note(span, text): the text is fixed by the message, the span is kept
WithNote(e, span) == [e EXCEPT !.note = span]
\* .with_help(text)
WithHelp(e, text) == [e EXCEPT !.help = text]

---------------------------------------------------------------------------
(* The total order of values that BTreeSet and BTreeMap keep their         *)
(* elements in: by variant, then within the variant.  Strings are ordered  *)
(* by their place in StringOrder, which lists the strings of the model     *)
(* lexicographically.                                                      *)

VariantOrder == <<"Bool", "Int", "String", "List", "Set", "Map", "Builtin">>
StringOrder == <<"a", "b", "contains", "get", "len", "zz">>

IndexIn(seq, x) == CHOOSE i \in DOMAIN seq : seq[i] = x

IntCmp(m, n) == IF m < n THEN -1 ELSE IF m > n THEN 1 ELSE 0

RECURSIVE ValueCmp(_, _), SeqCmp(_, _, _), SortSet(_)

ValueCmp(a, b) ==
    IF a[1] # b[1]
    THEN IntCmp(IndexIn(VariantOrder, a[1]), IndexIn(VariantOrder, b[1]))
    ELSE CASE a[1] = "Bool" ->
                IntCmp(IF a[2] THEN 1 ELSE 0, IF b[2] THEN 1 ELSE 0)
           [] a[1] = "Int" -> BigCmp(a[2], b[2])
           [] a[1] = "String" ->
                IntCmp(IndexIn(StringOrder, a[2]), IndexIn(StringOrder, b[2]))
           [] a[1] = "List" -> SeqCmp(a[2], b[2], 1)
           [] a[1] = "Set" -> SeqCmp(SortSet(a[2]), SortSet(b[2]), 1)
           [] a[1] = "Map" ->
                LET ka == SortSet(DOMAIN a[2])
                    kb == SortSet(DOMAIN b[2])
                    ea == [i \in DOMAIN ka |-> VList(<<ka[i], a[2][ka[i]]>>)]
                    eb == [i \in DOMAIN kb |-> VList(<<kb[i], b[2][kb[i]]>>)]
                IN  SeqCmp(ea, eb, 1)
           [] OTHER -> 0

\* lexicographic comparison of two sequences of values, from index i on
SeqCmp(s, t, i) ==
    IF i > Len(s) THEN (IF i > Len(t) THEN 0 ELSE -1)
    ELSE IF i > Len(t) THEN 1
    ELSE LET c == ValueCmp(s[i], t[i])
         IN  IF c # 0 THEN c ELSE SeqCmp(s, t, i + 1)

\* the elements of a set in ascending order: BTreeSet / BTreeMap iteration
SortSet(S) ==
    IF S = {} THEN <<>>
    ELSE LET m == CHOOSE x \in S : \A y \in S : ValueCmp(x, y) <= 0
         IN  <<m>> \o SortSet(S \ {m})

---------------------------------------------------------------------------
(* Environment (runtime::Env): a stack of bindings.                        *)

EnvPush(e, ident, value) == Append(e, <<ident, value>>)

EnvPop(e) == IF e = <<>> THEN e ELSE SubSeq(e, 1, Len(e) - 1)

\* the innermost binding of name: Some value, or None
EnvLookup(e, name) ==
    LET found == {i \in DOMAIN e : e[i][1] = name}
    IN  IF found = {} THEN None
        ELSE <<"Some", e[CHOOSE i \in found : \A j \in found : j <= i][2]>>

---------------------------------------------------------------------------
(* eval_unop and eval_binop.                                               *)

eval_unop(op, v) ==
    IF op = "Neg" /\ v[1] = "Bool"
    THEN Ok(VBool(~v[2]))
    ELSE Err(Error("The unary operator is not supported for this value."))

\* for (k, v) in ys.iter() { result.insert(k, v) }, from the i-th entry on
RECURSIVE InsertAll(_, _, _, _)
InsertAll(result, ys, keys, i) ==
    IF i > Len(keys) THEN result
    ELSE InsertAll(MapInsert(result, keys[i], ys[keys[i]]), ys, keys, i + 1)

\* a plausible slip: the entries already present win
RECURSIVE InsertAbsent(_, _, _, _)
InsertAbsent(result, ys, keys, i) ==
    IF i > Len(keys) THEN result
    ELSE InsertAbsent(IF keys[i] \in DOMAIN result THEN result
                      ELSE MapInsert(result, keys[i], ys[keys[i]]),
                      ys, keys, i + 1)

MapUnionLeftBiased(xs, ys) == InsertAbsent(xs, ys, SortSet(DOMAIN ys), 1)

\* (BinOp::Union, Value::Map(xs), Value::Map(ys))
MapUnion(xs, ys) == InsertAll(xs, ys, SortSet(DOMAIN ys), 1)

\* the Add arm with a clamping addition
AddIntsSaturating(op_span, x, y) ==
    LET z == saturating_add(x, y)
    IN  IF z[1] = "Some" THEN Ok(VInt(z[2]))
        ELSE Err(SpanError(op_span, "Addition would overflow."))

\* (BinOp::Add, Value::Int(x), Value::Int(y))
AddInts(op_span, x, y) ==
    LET z == checked_add(x, y)
    IN  IF z[1] = "Some" THEN Ok(VInt(z[2]))
        ELSE Err(SpanError(op_span, "Addition would overflow."))

\* (BinOp::Mul, Value::Int(x), Value::Int(y))
MulInts(op_span, x, y) ==
    LET z == checked_mul(x, y)
    IN  IF z[1] = "Some" THEN Ok(VInt(z[2]))
        ELSE Err(SpanError(op_span, "Multiplication would overflow."))

\* an eval_binop whose Union also takes a List on the left of a Set
eval_binop_symmetric(op, op_span, lhs, rhs) ==
    CASE op = "Union" /\ lhs[1] = "Map" /\ rhs[1] = "Map" ->
            Ok(VMap(MapUnion(lhs[2], rhs[2])))
      [] op = "Union" /\ lhs[1] = "Set" /\ rhs[1] = "Set" ->
            Ok(VSet(lhs[2] \cup rhs[2]))
      [] op = "Union" /\ lhs[1] = "Set" /\ rhs[1] = "List" ->
            Ok(VSet(lhs[2] \cup Range(rhs[2])))
      [] op = "Union" /\ lhs[1] = "List" /\ rhs[1] = "Set" ->
            Ok(VSet(Range(lhs[2]) \cup rhs[2]))
      [] op = "And" /\ lhs[1] = "Bool" /\ rhs[1] = "Bool" ->
            Ok(VBool(lhs[2] /\ rhs[2]))
      [] op = "Or" /\ lhs[1] = "Bool" /\ rhs[1] = "Bool" ->
            Ok(VBool(lhs[2] \/ rhs[2]))
      [] op = "Add" /\ lhs[1] = "Int" /\ rhs[1] = "Int" ->
            AddInts(op_span, lhs[2], rhs[2])
      [] op = "Mul" /\ lhs[1] = "Int" /\ rhs[1] = "Int" ->
            MulInts(op_span, lhs[2], rhs[2])
      [] op = "Lt" /\ lhs[1] = "Int" /\ rhs[1] = "Int" ->
            Ok(VBool(BigCmp(lhs[2], rhs[2]) < 0))
      [] op = "Gt" /\ lhs[1] = "Int" /\ rhs[1] = "Int" ->
            Ok(VBool(BigCmp(lhs[2], rhs[2]) > 0))
      [] op = "LtEq" /\ lhs[1] = "Int" /\ rhs[1] = "Int" ->
            Ok(VBool(BigCmp(lhs[2], rhs[2]) <= 0))
      [] op = "GtEq" /\ lhs[1] = "Int" /\ rhs[1] = "Int" ->
            Ok(VBool(BigCmp(lhs[2], rhs[2]) >= 0))
      [] OTHER ->
            Err(Error("The binary operator is not supported for this value."))

eval_binop(op, op_span, lhs, rhs) ==
    CASE op = "Union" /\ lhs[1] = "Map" /\ rhs[1] = "Map" ->
            Ok(VMap(MapUnion(lhs[2], rhs[2])))
      [] op = "Union" /\ lhs[1] = "Set" /\ rhs[1] = "Set" ->
            Ok(VSet(lhs[2] \cup rhs[2]))
      [] op = "Union" /\ lhs[1] = "Set" /\ rhs[1] = "List" ->
            Ok(VSet(lhs[2] \cup Range(rhs[2])))
      [] op = "And" /\ lhs[1] = "Bool" /\ rhs[1] = "Bool" ->
            Ok(VBool(lhs[2] /\ rhs[2]))
      [] op = "Or" /\ lhs[1] = "Bool" /\ rhs[1] = "Bool" ->
            Ok(VBool(lhs[2] \/ rhs[2]))
      [] op = "Add" /\ lhs[1] = "Int" /\ rhs[1] = "Int" ->
            AddInts(op_span, lhs[2], rhs[2])
      [] op = "Mul" /\ lhs[1] = "Int" /\ rhs[1] = "Int" ->
            MulInts(op_span, lhs[2], rhs[2])
      [] op = "Lt" /\ lhs[1] = "Int" /\ rhs[1] = "Int" ->
            Ok(VBool(BigCmp(lhs[2], rhs[2]) < 0))
      [] op = "Gt" /\ lhs[1] = "Int" /\ rhs[1] = "Int" ->
            Ok(VBool(BigCmp(lhs[2], rhs[2]) > 0))
      [] op = "LtEq" /\ lhs[1] = "Int" /\ rhs[1] = "Int" ->
            Ok(VBool(BigCmp(lhs[2], rhs[2]) <= 0))
      [] op = "GtEq" /\ lhs[1] = "Int" /\ rhs[1] = "Int" ->
            Ok(VBool(BigCmp(lhs[2], rhs[2]) >= 0))
      [] OTHER ->
            Err(Error("The binary operator is not supported for this value."))

---------------------------------------------------------------------------
(* SeqOut, the accumulator of a literal.                                   *)

SeqOutSetOrRecord == <<"SetOrRecord">>
SeqOutList(values) == <<"List", values>>
SeqOutSet(span, values) == <<"Set", span, values>>
SeqOutRecord(span, keys, values) == <<"Record", span, keys, values>>

\* a SeqOut::values that keeps the latest scalar, not the first, as evidence
SeqOutValuesLatestEvidence(out, scalar) ==
    CASE out[1] = "SetOrRecord" -> <<SeqOutSet(scalar, <<>>), Ok(Unit)>>
      [] out[1] = "List" -> <<out, Ok(Unit)>>
      [] out[1] = "Set" -> <<SeqOutSet(scalar, out[3]), Ok(Unit)>>
      [] out[1] = "Record" ->
            <<out, Err(WithNote(SpanError(scalar,
                        "Expected key-value, not a scalar element."), out[2]))>>

\* SeqOut::values: the accumulator afterwards, and Ok (the caller may push
\* a scalar) or the error
SeqOutValues(out, scalar) ==
    CASE out[1] = "SetOrRecord" -> <<SeqOutSet(scalar, <<>>), Ok(Unit)>>
      [] out[1] = "List" -> <<out, Ok(Unit)>>
      [] out[1] = "Set" -> <<out, Ok(Unit)>>
      [] out[1] = "Record" ->
            <<out, Err(WithNote(SpanError(scalar,
                        "Expected key-value, not a scalar element."), out[2]))>>

\* a SeqOut::keys_values that turns a set into a record instead of failing
SeqOutKeysValuesRecommit(out, kv) ==
    CASE out[1] = "SetOrRecord" -> <<SeqOutRecord(kv, <<>>, <<>>), Ok(Unit)>>
      [] out[1] = "List" ->
            <<out, Err(WithHelp(SpanError(kv,
                        "Expected scalar element, not key-value."),
                        "Key-value pairs are allowed in records, which are enclosed in '{}', not '[]'."))>>
      [] out[1] = "Set" -> <<SeqOutRecord(kv, <<>>, <<>>), Ok(Unit)>>
      [] out[1] = "Record" -> <<out, Ok(Unit)>>

\* SeqOut::keys_values
SeqOutKeysValues(out, kv) ==
    CASE out[1] = "SetOrRecord" -> <<SeqOutRecord(kv, <<>>, <<>>), Ok(Unit)>>
      [] out[1] = "List" ->
            <<out, Err(WithHelp(SpanError(kv,
                        "Expected scalar element, not key-value."),
                        "Key-value pairs are allowed in records, which are enclosed in '{}', not '[]'."))>>
      [] out[1] = "Set" ->
            <<out, Err(WithNote(SpanError(kv,
                        "Expected scalar element, not key-value."), out[2]))>>
      [] out[1] = "Record" -> <<out, Ok(Unit)>>

\* out_values.push(value), through the reference SeqOut::values returned
PushValue(out, value) ==
    IF out[1] = "List" THEN SeqOutList(Append(out[2], value))
    ELSE SeqOutSet(out[2], Append(out[3], value))

\* out_keys.push(key); out_values.push(value)
PushKeyValue(out, key, value) ==
    SeqOutRecord(out[2], Append(out[3], key), Append(out[4], value))

\* values.into_iter().collect() into a BTreeSet
CollectSet(values) == Range(values)

\* a zip-insert that keeps the value a key got first
RECURSIVE ZipInsertFirstWins(_, _, _, _)
ZipInsertFirstWins(result, keys, values, i) ==
    IF i > Len(keys) \/ i > Len(values) THEN result
    ELSE ZipInsertFirstWins(IF keys[i] \in DOMAIN result THEN result
                            ELSE MapInsert(result, keys[i], values[i]),
                            keys, values, i + 1)

\* for (k, v) in keys.into_iter().zip(values) { result.insert(k, v) }
RECURSIVE ZipInsert(_, _, _, _)
ZipInsert(result, keys, values, i) ==
    IF i > Len(keys) \/ i > Len(values) THEN result
    ELSE ZipInsert(MapInsert(result, keys[i], values[i]), keys, values, i + 1)

\* a finish that takes the undetermined literal for a record
FinishBraceLitEmptyMap(out) ==
    CASE out[1] = "SetOrRecord" -> Ok(VMap(EmptyMap))
      [] out[1] = "Set" -> Ok(VSet(CollectSet(out[3])))
      [] out[1] = "Record" -> Ok(VMap(ZipInsert(EmptyMap, out[3], out[4], 1)))
      [] out[1] = "List" -> Panic("Did not start out as list.")

\* the match on out that ends Expr::BraceLit
FinishBraceLit(out) ==
    CASE out[1] = "SetOrRecord" -> Ok(VSet({}))
      [] out[1] = "Set" -> Ok(VSet(CollectSet(out[3])))
      [] out[1] = "Record" ->
            IF Len(out[3]) # Len(out[4])
            THEN Panic("Should have already reported error about mixing k: v and values in one comprehension.")
            ELSE Ok(VMap(ZipInsert(EmptyMap, out[3], out[4], 1)))
      [] out[1] = "List" -> Panic("Did not start out as list.")

\* the match on out that ends Expr::BracketLit
FinishBracketLit(out) ==
    IF out[1] = "List" THEN Ok(VList(out[2]))
    ELSE Panic("SeqOut::List type is preserved.")

---------------------------------------------------------------------------
(* Builtins and field access.                                              *)

builtin_string_len(s) == VBuiltin("String.len", VInt(Big(Len(s))))
builtin_map_contains(v) == VBuiltin("Map.contains", v)
builtin_list_contains(v) == VBuiltin("List.contains", v)
builtin_map_get(v) == VBuiltin("Map.get", v)

\* builtins of which Map.contains looks at its first argument and takes more
CallBuiltinLenient(f, args) ==
    CASE f.name = "String.len" ->
            IF Len(args) > 0 THEN Err(Error("String.len takes no arguments."))
            ELSE Ok(f.closed)
      [] f.name = "Map.contains" ->
            IF Len(args) < 1
            THEN Err(Error("Map.contains takes a single argument."))
            ELSE IF f.closed[1] = "Map"
            THEN Ok(VBool(args[1] \in DOMAIN f.closed[2]))
            ELSE Panic("Should not have made a Map.contains for this value.")
      [] f.name = "List.contains" ->
            IF Len(args) # 1
            THEN Err(Error("List.contains takes a single argument."))
            ELSE IF f.closed[1] = "List"
            THEN Ok(VBool(args[1] \in Range(f.closed[2])))
            ELSE Panic("Should not have made a List.contains for this value.")
      [] f.name = "Map.get" ->
            IF Len(args) # 2 THEN Err(Error("Map.get takes two arguments."))
            ELSE IF f.closed[1] = "Map"
            THEN (IF args[1] \in DOMAIN f.closed[2]
                  THEN Ok(f.closed[2][args[1]])
                  ELSE Ok(args[2]))
            ELSE Panic("Should not have made a Map.get for this value.")

\* (f.f)(&args[..]): the closure of builtin f applied to args
CallBuiltin(f, args) ==
    CASE f.name = "String.len" ->
            IF Len(args) > 0 THEN Err(Error("String.len takes no arguments."))
            ELSE Ok(f.closed)
      [] f.name = "Map.contains" ->
            IF Len(args) # 1
            THEN Err(Error("Map.contains takes a single argument."))
            ELSE IF f.closed[1] = "Map"
            THEN Ok(VBool(args[1] \in DOMAIN f.closed[2]))
            ELSE Panic("Should not have made a Map.contains for this value.")
      [] f.name = "List.contains" ->
            IF Len(args) # 1
            THEN Err(Error("List.contains takes a single argument."))
            ELSE IF f.closed[1] = "List"
            THEN Ok(VBool(args[1] \in Range(f.closed[2])))
            ELSE Panic("Should not have made a List.contains for this value.")
      [] f.name = "Map.get" ->
            IF Len(args) # 2 THEN Err(Error("Map.get takes two arguments."))
            ELSE IF f.closed[1] = "Map"
            THEN (IF args[1] \in DOMAIN f.closed[2]
                  THEN Ok(f.closed[2][args[1]])
                  ELSE Ok(args[2]))
            ELSE Panic("Should not have made a Map.get for this value.")

\* a field access on a Map that looks for a key before the builtin names
EvalFieldKeysFirst(inner, field_name) ==
    CASE inner[1] = "String" ->
            IF field_name = "len" THEN Ok(builtin_string_len(inner[2]))
            ELSE Err(Error("No such field in this string."))
      [] inner[1] = "Map" ->
            IF VString(field_name) \in DOMAIN inner[2]
            THEN Ok(inner[2][VString(field_name)])
            ELSE IF field_name = "contains" THEN Ok(builtin_map_contains(inner))
            ELSE IF field_name = "get" THEN Ok(builtin_map_get(inner))
            ELSE Err(Error("No such field in this value."))
      [] inner[1] = "List" ->
            IF field_name = "contains" THEN Ok(builtin_list_contains(inner))
            ELSE Err(Error("No such field in this list."))
      [] OTHER -> Err(Error("Can only do field access on records for now."))

\* the match on inner of Expr::Field
EvalField(inner, field_name) ==
    CASE inner[1] = "String" ->
            IF field_name = "len" THEN Ok(builtin_string_len(inner[2]))
            ELSE Err(Error("No such field in this string."))
      [] inner[1] = "Map" ->
            IF field_name = "contains" THEN Ok(builtin_map_contains(inner))
            ELSE IF field_name = "get" THEN Ok(builtin_map_get(inner))
            ELSE IF VString(field_name) \in DOMAIN inner[2]
            THEN Ok(inner[2][VString(field_name)])
            ELSE Err(Error("No such field in this value."))
      [] inner[1] = "List" ->
            IF field_name = "contains" THEN Ok(builtin_list_contains(inner))
            ELSE Err(Error("No such field in this list."))
      [] OTHER -> Err(Error("Can only do field access on records for now."))

---------------------------------------------------------------------------
(* The AST (ast::Expr and ast::Seq).  The span of a clause or an operator  *)
(* is the path of its node from the root, which is unique to the node.     *)

BraceLit(seqs) == <<"BraceLit", [seqs |-> seqs]>>
BracketLit(seqs) == <<"BracketLit", [seqs |-> seqs]>>
BoolLit(b) == <<"BoolLit", [b |-> b]>>
IntegerLit(i) == <<"IntegerLit", [i |-> i]>>
StringLit(s) == <<"StringLit", [s |-> s]>>
IfThenElse(if_, then, else_) ==
    <<"IfThenElse", [if_ |-> if_, then |-> then, else_ |-> else_]>>
Var(var) == <<"Var", [var |-> var]>>
Field(field, inner) == <<"Field", [field |-> field, inner |-> inner]>>
Let(ident, value, body) ==
    <<"Let", [ident |-> ident, value |-> value, body |-> body]>>
Call(function, args) == <<"Call", [function |-> function, args |-> args]>>
Lam == <<"Lam", [args |-> <<>>]>>
UnOp(op, value) == <<"UnOp", [op |-> op, value |-> value]>>
BinOp(op, lhs, rhs) == <<"BinOp", [op |-> op, lhs |-> lhs, rhs |-> rhs]>>

SeqElem(value) == <<"Seq::Elem", [value |-> value]>>
SeqAssoc(key, value) == <<"Seq::Assoc", [key |-> key, value |-> value]>>
SeqFor(idents, collection, body) ==
    <<"Seq::For", [idents |-> idents, collection |-> collection, body |-> body]>>
SeqIf(condition, body) ==
    <<"Seq::If", [condition |-> condition, body |-> body]>>
SeqLet(ident, value, body) ==
    <<"Seq::Let", [ident |-> ident, value |-> value, body |-> body]>>

---------------------------------------------------------------------------
(* The call stack.  A frame is one call of eval or eval_seq in progress:   *)
(* node is its expr / seq argument, path the node's place in the program,  *)
(* pc the sub-expression whose value the frame is waiting for ("start"     *)
(* before the arm has done anything), tmp the arm's locals so far and idx  *)
(* the position of its loop.  The out argument of an eval_seq call is the  *)
(* accumulator of the innermost literal in progress, the last of outs.     *)

Frame(node, path) ==
    [node |-> node, path |-> path, pc |-> "start", tmp |-> <<>>, idx |-> 1]

Pop(s) == SubSeq(s, 1, Len(s) - 1)
Top == stack[Len(stack)]
Kind == Top.node[1]
N == Top.node[2]
TopOut == outs[Len(outs)]
SetTopOut(out) == [outs EXCEPT ![Len(outs)] = out]

Running == stack # <<>>

\* the node of the program at path: each step of a path names the field of
\* the parent that holds the child, and the child's index in it (0: the
\* field is one node)
RECURSIVE NodeFrom(_, _, _)
NodeFrom(node, path, i) ==
    IF i > Len(path) THEN node
    ELSE NodeFrom(IF path[i][2] = 0 THEN node[2][path[i][1]]
                  ELSE node[2][path[i][1]][path[i][2]],
                  path, i + 1)

NodeAt(path) == NodeFrom(prog, path, 2)

\* The top frame, now frame, calls eval / eval_seq on its child node.
Enter(frame, child, role, o) ==
    /\ stack' = Append([stack EXCEPT ![Len(stack)] = frame],
                       Frame(child, Append(frame.path, role)))
    /\ ret' = None
    /\ trace' = Append(trace, <<"eval", Append(frame.path, role)>>)
    /\ outs' = o

\* The top frame returns r to its caller.  A panic unwinds every frame, and
\* with them the accumulators they own.
Return(r, o) ==
    /\ ret' = r
    /\ trace' = Append(trace, <<"ret", Top.path, r>>)
    /\ IF IsPanic(r)
       THEN stack' = <<>> /\ outs' = <<>>
       ELSE stack' = Pop(stack) /\ outs' = o

\* The top frame goes on as frame without calling or returning.
Goto(frame) ==
    /\ stack' = [stack EXCEPT ![Len(stack)] = frame]
    /\ ret' = None
    /\ trace' = trace
    /\ outs' = outs

At(pc) == [Top EXCEPT !.pc = pc]

---------------------------------------------------------------------------
(* eval: one action per arm of its match.                                  *)

\* Expr::BraceLit
EvalBraceLit ==
    /\ Running /\ Kind = "BraceLit"
    /\ UNCHANGED <<prog, env0, env, calls, binop_in>>
    /\ LET out == IF Top.pc = "start" THEN SeqOutSetOrRecord ELSE TopOut
           rest == IF Top.pc = "start" THEN outs ELSE Pop(outs)
       IN  IF Top.pc = "seqs" /\ IsErr(ret)
           THEN Return(ret, rest)
           ELSE IF Top.idx <= Len(N.seqs)
           THEN Enter([Top EXCEPT !.pc = "seqs", !.idx = @ + 1],
                      N.seqs[Top.idx], <<"seqs", Top.idx>>, Append(rest, out))
           ELSE Return(FinishBraceLit(out), rest)

\* Expr::BracketLit
EvalBracketLit ==
    /\ Running /\ Kind = "BracketLit"
    /\ UNCHANGED <<prog, env0, env, calls, binop_in>>
    /\ LET out == IF Top.pc = "start" THEN SeqOutList(<<>>) ELSE TopOut
           rest == IF Top.pc = "start" THEN outs ELSE Pop(outs)
       IN  IF Top.pc = "seqs" /\ IsErr(ret)
           THEN Return(ret, rest)
           ELSE IF Top.idx <= Len(N.seqs)
           THEN Enter([Top EXCEPT !.pc = "seqs", !.idx = @ + 1],
                      N.seqs[Top.idx], <<"seqs", Top.idx>>, Append(rest, out))
           ELSE Return(FinishBracketLit(out), rest)

\* Expr::BoolLit
EvalBoolLit ==
    /\ Running /\ Kind = "BoolLit"
    /\ UNCHANGED <<prog, env0, env, calls, binop_in>>
    /\ Return(Ok(VBool(N.b)), outs)

\* Expr::IntegerLit
EvalIntegerLit ==
    /\ Running /\ Kind = "IntegerLit"
    /\ UNCHANGED <<prog, env0, env, calls, binop_in>>
    /\ Return(Ok(VInt(N.i)), outs)

\* Expr::StringLit
EvalStringLit ==
    /\ Running /\ Kind = "StringLit"
    /\ UNCHANGED <<prog, env0, env, calls, binop_in>>
    /\ Return(Ok(VString(N.s)), outs)

\* a conditional that takes the then-branch whatever the condition is
SelectBranchAlwaysThen(cond) ==
    IF cond[1] = "Bool" THEN "then" ELSE "error"

\* the match on cond of Expr::IfThenElse: the branch to evaluate
SelectBranch(cond) ==
    IF cond[1] = "Bool" /\ cond[2] THEN "then"
    ELSE IF cond[1] = "Bool" /\ ~cond[2] THEN "else_"
    ELSE "error"

\* Expr::IfThenElse
EvalIfThenElse ==
    /\ Running /\ Kind = "IfThenElse"
    /\ UNCHANGED <<prog, env0, env, calls, binop_in>>
    /\ CASE Top.pc = "start" -> Enter(At("if_"), N.if_, <<"if_", 0>>, outs)
         [] Top.pc = "if_" ->
              IF IsErr(ret) THEN Return(ret, outs)
              ELSE IF SelectBranch(ret[2]) = "then"
              THEN Enter(At("branch"), N.then, <<"then", 0>>, outs)
              ELSE IF SelectBranch(ret[2]) = "else_"
              THEN Enter(At("branch"), N.else_, <<"else_", 0>>, outs)
              ELSE Return(Err(Error("Condition should be boolean.")), outs)
         [] Top.pc = "branch" -> Return(ret, outs)

\* Expr::Var
EvalVar ==
    /\ Running /\ Kind = "Var"
    /\ UNCHANGED <<prog, env0, env, calls, binop_in>>
    /\ LET found == EnvLookup(env, N.var)
       IN  IF found[1] = "None"
           THEN Return(Err(Error("Variable not found.")), outs)
           ELSE Return(Ok(found[2]), outs)

\* Expr::Field
EvalFieldExpr ==
    /\ Running /\ Kind = "Field"
    /\ UNCHANGED <<prog, env0, env, calls, binop_in>>
    /\ CASE Top.pc = "start" -> Enter(At("inner"), N.inner, <<"inner", 0>>, outs)
         [] Top.pc = "inner" ->
              IF IsErr(ret) THEN Return(ret, outs)
              ELSE Return(EvalField(ret[2], N.field), outs)

\* an Expr::Let that leaves its binding in the environment
EvalLetNoPop ==
    /\ Running /\ Kind = "Let"
    /\ UNCHANGED <<prog, env0, calls, binop_in>>
    /\ CASE Top.pc = "start" ->
              /\ Enter(At("value"), N.value, <<"value", 0>>, outs)
              /\ env' = env
         [] Top.pc = "value" ->
              IF IsErr(ret)
              THEN Return(ret, outs) /\ env' = env
              ELSE /\ env' = EnvPush(env, N.ident, ret[2])
                   /\ Enter(At("body"), N.body, <<"body", 0>>, outs)
         [] Top.pc = "body" -> Return(ret, outs) /\ env' = env

\* Expr::Let
EvalLet ==
    /\ Running /\ Kind = "Let"
    /\ UNCHANGED <<prog, env0, calls, binop_in>>
    /\ CASE Top.pc = "start" ->
              /\ Enter(At("value"), N.value, <<"value", 0>>, outs)
              /\ env' = env
         [] Top.pc = "value" ->
              IF IsErr(ret)
              THEN Return(ret, outs) /\ env' = env
              ELSE /\ env' = EnvPush(env, N.ident, ret[2])
                   /\ Enter(At("body"), N.body, <<"body", 0>>, outs)
         [] Top.pc = "body" ->
              IF IsErr(ret)
              THEN Return(ret, outs) /\ env' = env
              ELSE Return(ret, outs) /\ env' = EnvPop(env)

\* a call that hands the arguments over last first
InvokeReversed(fun, args) ==
    IF fun[1] = "Builtin"
    THEN CallBuiltin(fun[2], [i \in DOMAIN args |-> args[Len(args) + 1 - i]])
    ELSE Err(Error("Can only call functions."))

\* the match on fun that ends Expr::Call
Invoke(fun, args) ==
    IF fun[1] = "Builtin" THEN CallBuiltin(fun[2], args)
    ELSE Err(Error("Can only call functions."))

\* Expr::Call; tmp holds fun and then the values of the arguments so far
EvalCall ==
    /\ Running /\ Kind = "Call"
    /\ UNCHANGED <<prog, env0, env, binop_in>>
    /\ IF Top.pc = "start"
       THEN /\ Enter(At("function"), N.function, <<"function", 0>>, outs)
            /\ calls' = calls
       ELSE IF IsErr(ret)
       THEN Return(ret, outs) /\ calls' = calls
       ELSE LET got == Append(Top.tmp, ret[2])
            IN  IF Len(got) <= Len(N.args)
                THEN /\ Enter([Top EXCEPT !.pc = "args", !.tmp = got],
                              N.args[Len(got)], <<"args", Len(got)>>, outs)
                     /\ calls' = calls
                ELSE /\ Return(Invoke(got[1], Tail(got)), outs)
                     /\ calls' = IF got[1][1] = "Builtin"
                                 THEN Append(calls, <<got[1][2].name, Tail(got)>>)
                                 ELSE calls

\* Expr::Lam
EvalLam ==
    /\ Running /\ Kind = "Lam"
    /\ UNCHANGED <<prog, env0, env, calls, binop_in>>
    /\ Return(Panic("not implemented: TODO: Define lambdas."), outs)

\* Expr::UnOp
EvalUnOp ==
    /\ Running /\ Kind = "UnOp"
    /\ UNCHANGED <<prog, env0, env, calls, binop_in>>
    /\ CASE Top.pc = "start" -> Enter(At("value"), N.value, <<"value", 0>>, outs)
         [] Top.pc = "value" ->
              IF IsErr(ret) THEN Return(ret, outs)
              ELSE Return(eval_unop(N.op, ret[2]), outs)

\* an Expr::BinOp that skips rhs when lhs decides And / Or
EvalBinOpShortCircuit ==
    /\ Running /\ Kind = "BinOp"
    /\ UNCHANGED <<prog, env0, env, calls, binop_in>>
    /\ CASE Top.pc = "start" -> Enter(At("lhs"), N.lhs, <<"lhs", 0>>, outs)
         [] Top.pc = "lhs" ->
              IF IsErr(ret) THEN Return(ret, outs)
              ELSE IF N.op = "And" /\ ret[2][1] = "Bool" /\ ~ret[2][2]
              THEN Return(Ok(VBool(FALSE)), outs)
              ELSE IF N.op = "Or" /\ ret[2][1] = "Bool" /\ ret[2][2]
              THEN Return(Ok(VBool(TRUE)), outs)
              ELSE Enter([Top EXCEPT !.pc = "rhs", !.tmp = <<ret[2]>>],
                         N.rhs, <<"rhs", 0>>, outs)
         [] Top.pc = "rhs" ->
              IF IsErr(ret) THEN Return(ret, outs)
              ELSE Return(eval_binop(N.op, Top.path, Top.tmp[1], ret[2]), outs)

\* Expr::BinOp; tmp holds lhs
EvalBinOp ==
    /\ Running /\ Kind = "BinOp"
    /\ UNCHANGED <<prog, env0, env, calls, binop_in>>
    /\ CASE Top.pc = "start" -> Enter(At("lhs"), N.lhs, <<"lhs", 0>>, outs)
         [] Top.pc = "lhs" ->
              IF IsErr(ret) THEN Return(ret, outs)
              ELSE Enter([Top EXCEPT !.pc = "rhs", !.tmp = <<ret[2]>>],
                         N.rhs, <<"rhs", 0>>, outs)
         [] Top.pc = "rhs" ->
              IF IsErr(ret) THEN Return(ret, outs)
              ELSE Return(eval_binop(N.op, Top.path, Top.tmp[1], ret[2]), outs)

---------------------------------------------------------------------------
(* eval_seq: one action per arm of its match.                              *)

\* a Seq::Elem that evaluates its value before it asks for the scalar slot
EvalSeqElemLate ==
    /\ Running /\ Kind = "Seq::Elem"
    /\ UNCHANGED <<prog, env0, env, calls, binop_in>>
    /\ CASE Top.pc = "start" -> Enter(At("value"), N.value, <<"value", 0>>, outs)
         [] Top.pc = "value" ->
              IF IsErr(ret) THEN Return(ret, outs)
              ELSE LET r == SeqOutValues(TopOut, Top.path)
                   IN  IF IsErr(r[2]) THEN Return(r[2], SetTopOut(r[1]))
                       ELSE Return(Ok(Unit), SetTopOut(PushValue(r[1], ret[2])))

\* Seq::Elem
EvalSeqElem ==
    /\ Running /\ Kind = "Seq::Elem"
    /\ UNCHANGED <<prog, env0, env, calls, binop_in>>
    /\ CASE Top.pc = "start" ->
              LET r == SeqOutValues(TopOut, Top.path)
              IN  IF IsErr(r[2]) THEN Return(r[2], SetTopOut(r[1]))
                  ELSE Enter(At("value"), N.value, <<"value", 0>>, SetTopOut(r[1]))
         [] Top.pc = "value" ->
              IF IsErr(ret) THEN Return(ret, outs)
              ELSE Return(Ok(Unit), SetTopOut(PushValue(TopOut, ret[2])))

\* a Seq::Assoc that appends the key as soon as it has it
EvalSeqAssocPushEarly ==
    /\ Running /\ Kind = "Seq::Assoc"
    /\ UNCHANGED <<prog, env0, env, calls, binop_in>>
    /\ CASE Top.pc = "start" ->
              LET r == SeqOutKeysValues(TopOut, Top.path)
              IN  IF IsErr(r[2]) THEN Return(r[2], SetTopOut(r[1]))
                  ELSE Enter(At("key"), N.key, <<"key", 0>>, SetTopOut(r[1]))
         [] Top.pc = "key" ->
              IF IsErr(ret) THEN Return(ret, outs)
              ELSE Enter([Top EXCEPT !.pc = "value", !.tmp = <<ret[2]>>],
                         N.value, <<"value", 0>>,
                         SetTopOut(SeqOutRecord(TopOut[2], Append(TopOut[3], ret[2]),
                                                TopOut[4])))
         [] Top.pc = "value" ->
              IF IsErr(ret) THEN Return(ret, outs)
              ELSE Return(Ok(Unit),
                          SetTopOut(SeqOutRecord(TopOut[2], TopOut[3],
                                                 Append(TopOut[4], ret[2]))))

\* Seq::Assoc; tmp holds key
EvalSeqAssoc ==
    /\ Running /\ Kind = "Seq::Assoc"
    /\ UNCHANGED <<prog, env0, env, calls, binop_in>>
    /\ CASE Top.pc = "start" ->
              LET r == SeqOutKeysValues(TopOut, Top.path)
              IN  IF IsErr(r[2]) THEN Return(r[2], SetTopOut(r[1]))
                  ELSE Enter(At("key"), N.key, <<"key", 0>>, SetTopOut(r[1]))
         [] Top.pc = "key" ->
              IF IsErr(ret) THEN Return(ret, outs)
              ELSE Enter([Top EXCEPT !.pc = "value", !.tmp = <<ret[2]>>],
                         N.value, <<"value", 0>>, outs)
         [] Top.pc = "value" ->
              IF IsErr(ret) THEN Return(ret, outs)
              ELSE Return(Ok(Unit),
                          SetTopOut(PushKeyValue(TopOut, Top.tmp[1], ret[2])))

\* a Seq::For whose two binders take the entry's value and key, in that order
ForItemsSwapped(idents, coll) ==
    CASE Len(idents) = 1 /\ coll[1] = "List" ->
            <<"Items", [i \in DOMAIN coll[2] |-> << <<idents[1], coll[2][i]>> >>]>>
      [] Len(idents) = 1 /\ coll[1] = "Set" ->
            LET xs == SortSet(coll[2])
            IN  <<"Items", [i \in DOMAIN xs |-> << <<idents[1], xs[i]>> >>]>>
      [] Len(idents) = 2 /\ coll[1] = "Map" ->
            LET ks == SortSet(DOMAIN coll[2])
            IN  <<"Items", [i \in DOMAIN ks |->
                    << <<idents[1], coll[2][ks[i]]>>, <<idents[2], ks[i]>> >>]>>
      [] OTHER -> <<"Unsupported">>

\* the match on (idents, collection_value) of Seq::For: the bindings of each
\* iteration in order, or Unsupported
ForItems(idents, coll) ==
    CASE Len(idents) = 1 /\ coll[1] = "List" ->
            <<"Items", [i \in DOMAIN coll[2] |-> << <<idents[1], coll[2][i]>> >>]>>
      [] Len(idents) = 1 /\ coll[1] = "Set" ->
            LET xs == SortSet(coll[2])
            IN  <<"Items", [i \in DOMAIN xs |-> << <<idents[1], xs[i]>> >>]>>
      [] Len(idents) = 2 /\ coll[1] = "Map" ->
            LET ks == SortSet(DOMAIN coll[2])
            IN  <<"Items", [i \in DOMAIN ks |->
                    << <<idents[1], ks[i]>>, <<idents[2], coll[2][ks[i]]>> >>]>>
      [] OTHER -> <<"Unsupported">>

\* env.push for each binding of an iteration, env.pop for each
RECURSIVE PushAll(_, _, _)
PushAll(e, bindings, i) ==
    IF i > Len(bindings) THEN e
    ELSE PushAll(EnvPush(e, bindings[i][1], bindings[i][2]), bindings, i + 1)

RECURSIVE PopN(_, _)
PopN(e, n) == IF n = 0 THEN e ELSE PopN(EnvPop(e), n - 1)

\* a Seq::For that pops one binder after each iteration, also of two
EvalSeqForPopOne ==
    /\ Running /\ Kind = "Seq::For"
    /\ UNCHANGED <<prog, env0, calls, binop_in>>
    /\ CASE Top.pc = "start" ->
              /\ Enter(At("collection"), N.collection, <<"collection", 0>>, outs)
              /\ env' = env
         [] Top.pc = "collection" ->
              /\ env' = env
              /\ IF IsErr(ret) THEN Return(ret, outs)
                 ELSE IF ForItems(N.idents, ret[2])[1] = "Unsupported"
                 THEN Return(Err(Error("Iteration is not supported like this.")), outs)
                 ELSE Goto([Top EXCEPT !.pc = "iter",
                                       !.tmp = ForItems(N.idents, ret[2])[2]])
         [] Top.pc = "iter" ->
              IF Top.idx <= Len(Top.tmp)
              THEN /\ env' = PushAll(env, Top.tmp[Top.idx], 1)
                   /\ Enter(At("body"), N.body, <<"body", 0>>, outs)
              ELSE Return(Ok(Unit), outs) /\ env' = env
         [] Top.pc = "body" ->
              IF IsErr(ret)
              THEN Return(ret, outs) /\ env' = env
              ELSE /\ env' = PopN(env, 1)
                   /\ Goto([Top EXCEPT !.pc = "iter", !.idx = @ + 1])

\* Seq::For; tmp holds the bindings of the iterations, idx the iteration
EvalSeqFor ==
    /\ Running /\ Kind = "Seq::For"
    /\ UNCHANGED <<prog, env0, calls, binop_in>>
    /\ CASE Top.pc = "start" ->
              /\ Enter(At("collection"), N.collection, <<"collection", 0>>, outs)
              /\ env' = env
         [] Top.pc = "collection" ->
              /\ env' = env
              /\ IF IsErr(ret) THEN Return(ret, outs)
                 ELSE IF ForItems(N.idents, ret[2])[1] = "Unsupported"
                 THEN Return(Err(Error("Iteration is not supported like this.")), outs)
                 ELSE Goto([Top EXCEPT !.pc = "iter",
                                       !.tmp = ForItems(N.idents, ret[2])[2]])
         [] Top.pc = "iter" ->
              IF Top.idx <= Len(Top.tmp)
              THEN /\ env' = PushAll(env, Top.tmp[Top.idx], 1)
                   /\ Enter(At("body"), N.body, <<"body", 0>>, outs)
              ELSE Return(Ok(Unit), outs) /\ env' = env
         [] Top.pc = "body" ->
              IF IsErr(ret)
              THEN Return(ret, outs) /\ env' = env
              ELSE /\ env' = PopN(env, Len(Top.tmp[Top.idx]))
                   /\ Goto([Top EXCEPT !.pc = "iter", !.idx = @ + 1])

\* a Seq::If that commits the accumulator to the shape of its body also
\* when the condition is false
EvalSeqIfCommits ==
    /\ Running /\ Kind = "Seq::If"
    /\ UNCHANGED <<prog, env0, env, calls, binop_in>>
    /\ CASE Top.pc = "start" ->
              Enter(At("condition"), N.condition, <<"condition", 0>>, outs)
         [] Top.pc = "condition" ->
              IF IsErr(ret) THEN Return(ret, outs)
              ELSE IF ret[2][1] = "Bool" /\ ret[2][2]
              THEN Enter(At("body"), N.body, <<"body", 0>>, outs)
              ELSE IF ret[2][1] = "Bool"
              THEN Return(Ok(Unit),
                          SetTopOut(CASE N.body[1] = "Seq::Elem" ->
                                            SeqOutValues(TopOut, Top.path)[1]
                                      [] N.body[1] = "Seq::Assoc" ->
                                            SeqOutKeysValues(TopOut, Top.path)[1]
                                      [] OTHER -> TopOut))
              ELSE Return(Err(Error("Comprehension condition should be boolean.")),
                          outs)
         [] Top.pc = "body" -> Return(ret, outs)

\* Seq::If
EvalSeqIf ==
    /\ Running /\ Kind = "Seq::If"
    /\ UNCHANGED <<prog, env0, env, calls, binop_in>>
    /\ CASE Top.pc = "start" ->
              Enter(At("condition"), N.condition, <<"condition", 0>>, outs)
         [] Top.pc = "condition" ->
              IF IsErr(ret) THEN Return(ret, outs)
              ELSE IF ret[2][1] = "Bool" /\ ret[2][2]
              THEN Enter(At("body"), N.body, <<"body", 0>>, outs)
              ELSE IF ret[2][1] = "Bool"
              THEN Return(Ok(Unit), outs)
              ELSE Return(Err(Error("Comprehension condition should be boolean.")),
                          outs)
         [] Top.pc = "body" -> Return(ret, outs)

\* Seq::Let
EvalSeqLet ==
    /\ Running /\ Kind = "Seq::Let"
    /\ UNCHANGED <<prog, env0, calls, binop_in>>
    /\ CASE Top.pc = "start" ->
              /\ Enter(At("value"), N.value, <<"value", 0>>, outs)
              /\ env' = env
         [] Top.pc = "value" ->
              IF IsErr(ret)
              THEN Return(ret, outs) /\ env' = env
              ELSE /\ env' = EnvPush(env, N.ident, ret[2])
                   /\ Enter(At("body"), N.body, <<"body", 0>>, outs)
         [] Top.pc = "body" ->
              IF IsErr(ret)
              THEN Return(ret, outs) /\ env' = env
              ELSE Return(Ok(Unit), outs) /\ env' = EnvPop(env)

---------------------------------------------------------------------------
(* The programs eval is run on, and the environments it is run in.         *)

MaxClauses == 3    \* clauses of a literal built from CoreClauses
MaxArgs == 2       \* arguments of a call
MaxKeys == 2       \* keys of the maps handed to eval_binop directly

\* all sequences over S of length at most n
SeqsUpTo(S, n) == UNION {[1..k -> S] : k \in 0..n}

T == BoolLit(TRUE)
F == BoolLit(FALSE)
I1 == IntegerLit(Big(1))
I2 == IntegerLit(Big(2))
Sa == StringLit("a")
Sb == StringLit("b")
Vx == Var("x")
Vy == Var("y")      \* bound nowhere: evaluating it fails
Vk == Var("k")
Vv == Var("v")
IMax == IntegerLit(I64Max)

List12 == BracketLit(<<SeqElem(I1), SeqElem(I2)>>)
Set12 == BraceLit(<<SeqElem(I2), SeqElem(I1)>>)
MapAB == BraceLit(<<SeqAssoc(Sb, I2), SeqAssoc(Sa, I1)>>)
MapA == BraceLit(<<SeqAssoc(Sa, I1)>>)
MapA2 == BraceLit(<<SeqAssoc(Sa, I2)>>)
MapGet == BraceLit(<<SeqAssoc(StringLit("get"), I1)>>)
Empty == BraceLit(<<>>)

Leaves == {T, F, I1, Sa, Vy, Lam}

\* clauses a literal may hold at every position
CoreClauses ==
    { SeqElem(I1), SeqElem(Vy),
      SeqAssoc(Sa, I1), SeqAssoc(Sa, Vy), SeqAssoc(Vy, I1),
      SeqIf(F, SeqElem(I1)), SeqIf(T, SeqAssoc(Sa, I2)),
      SeqFor(<<"x">>, BracketLit(<<>>), SeqAssoc(Sa, Vx)),
      SeqFor(<<"x">>, List12, SeqElem(Vx)),
      SeqLet("x", I2, SeqElem(Vx)) }

\* clauses a literal holds at its first position only
FirstClauses ==
    { SeqIf(F, SeqAssoc(Sa, I1)), SeqIf(T, SeqElem(I1)), SeqIf(I1, SeqElem(I1)),
      SeqIf(Vy, SeqElem(I1)), SeqIf(F, SeqElem(Lam)),
      SeqFor(<<"x">>, Empty, SeqElem(Vx)),
      SeqFor(<<"x">>, Empty, SeqAssoc(Sa, Vx)),
      SeqFor(<<"x">>, BracketLit(<<>>), SeqElem(Vx)),
      SeqFor(<<"k", "v">>, BraceLit(<<SeqIf(F, SeqAssoc(Sa, I1))>>), SeqElem(Vk)),
      SeqFor(<<"x">>, Set12, SeqElem(Vx)),
      SeqFor(<<"x">>, List12, SeqAssoc(Vx, Vx)),
      SeqFor(<<"x">>, List12, SeqElem(Vy)),
      SeqFor(<<"k", "v">>, MapAB, SeqAssoc(Vv, Vk)),
      SeqFor(<<"k", "v">>, MapAB, SeqElem(Vv)),
      SeqFor(<<"k", "v">>, MapAB, SeqElem(Vy)),
      SeqFor(<<"k", "v">>, List12, SeqElem(Vk)),
      SeqFor(<<"x">>, MapAB, SeqElem(Vx)),
      SeqFor(<<"x">>, I1, SeqElem(Vx)),
      SeqFor(<<"x">>, Vy, SeqElem(Vx)),
      SeqFor(<<"k", "v">>, Var("m"), SeqElem(Vk)),
      SeqFor(<<"k", "v">>, Var("m"), SeqAssoc(Vk, Vv)),
      SeqLet("x", I2, SeqAssoc(Sa, Vx)), SeqLet("x", Vy, SeqElem(Vx)),
      SeqLet("x", I2, SeqElem(Vy)),
      SeqElem(MapA), SeqElem(BraceLit(<<SeqElem(I1), SeqAssoc(Sa, I1)>>)),
      SeqAssoc(Sa, List12), SeqElem(Lam), SeqAssoc(Sb, I2) }

ShapeClauses == {SeqElem(I1), SeqAssoc(Sa, I1)}

ClauseSeqs ==
    SeqsUpTo(CoreClauses, MaxClauses)
        \cup {<<c>> : c \in FirstClauses}
        \cup {<<c, d>> : c \in FirstClauses, d \in ShapeClauses}

LiteralPrograms ==
    {BraceLit(seqs) : seqs \in ClauseSeqs} \cup {BracketLit(seqs) : seqs \in ClauseSeqs}

ConditionalPrograms ==
    {IfThenElse(c, t, e) : c \in Leaves, t \in Leaves, e \in Leaves}

Operands == Leaves \cup {I2, IMax, MapA, MapA2, MapAB, Empty, Set12, List12}

OperatorPrograms ==
    {BinOp(op, a, b) : op \in {"Union", "And", "Or", "Add", "Mul", "Lt"},
                       a \in Operands, b \in Operands}
        \cup {UnOp("Neg", a) : a \in Leaves}

LetBodies ==
    Leaves \cup { Vx, BinOp("Add", IMax, Vx), Let("x", I2, Vx), Let("x", I2, Vy), Let("x", Vx, Vx),
                  BinOp("Add", Let("x", I2, Vx), Vx),
                  BinOp("Add", Vx, Let("x", I2, Vx)),
                  BraceLit(<<SeqLet("x", I2, SeqElem(Vx)), SeqElem(Vx)>>),
                  BraceLit(<<SeqFor(<<"x">>, List12, SeqElem(Vx)), SeqElem(Vx)>>),
                  BraceLit(<<SeqFor(<<"x">>, List12, SeqElem(Vy))>>),
                  BraceLit(<<SeqFor(<<"y", "x">>, MapAB, SeqElem(Vx)), SeqElem(Vx)>>) }

LetPrograms ==
    {Let("x", v, b) : v \in Leaves \cup {Vx}, b \in LetBodies}

FieldPrograms ==
    {Field(f, inner) : f \in {"len", "contains", "get", "a", "b"},
                       inner \in {Sa, MapA, MapGet, List12, I1, Vy, Set12}}

Callees ==
    { Field("len", Sa), Field("contains", MapA), Field("get", MapA),
      Field("get", MapGet), Field("contains", List12), I1, Vy, Lam }

CallPrograms ==
    {Call(f, args) : f \in Callees, args \in SeqsUpTo({Sa, Sb, I1, Vy}, MaxArgs)}

Programs ==
    LiteralPrograms \cup ConditionalPrograms \cup OperatorPrograms
        \cup LetPrograms \cup FieldPrograms \cup CallPrograms

InitEnvs == { <<>>, << <<"m", VMap(EmptyMap)>>, <<"x", VInt(Big(1))>> >> }

\* the arguments eval_binop is called on directly
Pow31 == BigAdd(Big(2147483647), Big(1))
Pow32 == BigMul(Big(65536), Big(65536))
SqrtMax == BigAdd(BigMul(Big(30370), Big(100000)), Big(499))  \* 3037000499

BinopInts ==
    { I64Min, BigAdd(I64Min, Big(1)), BigMul(Pow32, Big(-1)), Big(-2), Big(-1),
      Big(0), Big(1), Big(2), Pow31, Pow32, SqrtMax, BigAdd(SqrtMax, Big(1)),
      BigAdd(I64Max, Big(-1)), I64Max }

MapKeys == {VString(StringOrder[i]) : i \in 1..MaxKeys}
MapVals == {VInt(Big(1)), VInt(Big(2))}
BinopMaps == UNION {[D -> MapVals] : D \in SUBSET MapKeys}

BinopValues ==
    {VInt(i) : i \in BinopInts} \cup {VMap(m) : m \in BinopMaps}
        \cup {VBool(TRUE), VBool(FALSE), VString("a")}
        \cup {VSet({}), VSet({VInt(Big(1))}), VSet({VInt(Big(1)), VInt(Big(2))})}
        \cup {VList(<<>>), VList(<<VInt(Big(2)), VInt(Big(3)), VInt(Big(3))>>)}

BinOps == {"Union", "And", "Or", "Add", "Mul", "Lt", "Gt", "LtEq", "GtEq"}

BinopCall(op, op_span, lhs, rhs) ==
    <<"BinopCall", [op |-> op, op_span |-> op_span, lhs |-> lhs, rhs |-> rhs]>>

RootPath == << <<"root", 0>> >>

---------------------------------------------------------------------------
(* The specification of eval.                                              *)

\* eval(env, prog) is called
InitEval ==
    /\ prog \in Programs
    /\ env0 \in InitEnvs
    /\ env = env0
    /\ stack = <<Frame(prog, RootPath)>>
    /\ outs = <<>>
    /\ ret = None
    /\ trace = << <<"eval", RootPath>> >>
    /\ calls = <<>>
    /\ binop_in = None

\* eval_binop(op, op_span, lhs, rhs) is called
InitBinop ==
    /\ prog = None
    /\ env0 = <<>>
    /\ env = env0
    /\ stack = <<>>
    /\ outs = <<>>
    /\ ret = None
    /\ trace = <<>>
    /\ calls = <<>>
    /\ binop_in \in {BinopCall(op, RootPath, lhs, rhs) :
                        op \in BinOps, lhs \in BinopValues, rhs \in BinopValues}

Init == InitEval \/ InitBinop

\* the direct call of eval_binop returns
EvalBinopDirect ==
    /\ binop_in[1] = "BinopCall"
    /\ ret[1] = "None"
    /\ ret' = eval_binop(binop_in[2].op, binop_in[2].op_span,
                         binop_in[2].lhs, binop_in[2].rhs)
    /\ UNCHANGED <<prog, env0, env, stack, outs, trace, calls, binop_in>>

Next ==
    \/ EvalBinopDirect
    \/ EvalBraceLit
    \/ EvalBracketLit
    \/ EvalBoolLit
    \/ EvalIntegerLit
    \/ EvalStringLit
    \/ EvalIfThenElse
    \/ EvalVar
    \/ EvalFieldExpr
    \/ EvalLet
    \/ EvalCall
    \/ EvalLam
    \/ EvalUnOp
    \/ EvalBinOp
    \/ EvalSeqElem
    \/ EvalSeqAssoc
    \/ EvalSeqFor
    \/ EvalSeqIf
    \/ EvalSeqLet

Spec == Init /\ [][Next]_vars

\* eval has returned (or panicked): ret is its result
Done == prog[1] # "None" /\ stack = <<>>

\* the direct call of eval_binop has returned: ret is its result
BinopDone == binop_in[1] = "BinopCall" /\ ret[1] # "None"

---------------------------------------------------------------------------
(* Reading the history.                                                    *)

Literals == {"BraceLit", "BracketLit"}
ShapeKinds == {"Seq::Elem", "Seq::Assoc"}

\* the frames that own an accumulator, bottom first: the i-th owns outs[i]
RECURSIVE OwnersFrom(_, _)
OwnersFrom(stk, i) ==
    IF i > Len(stk) THEN <<>>
    ELSE (IF stk[i].node[1] \in Literals /\ stk[i].pc = "seqs"
          THEN <<stk[i]>> ELSE <<>>) \o OwnersFrom(stk, i + 1)

Owners(stk) == OwnersFrom(stk, 1)

IsPrefix(q, p) == Len(q) <= Len(p) /\ SubSeq(p, 1, Len(q)) = q

\* the path of the innermost literal that encloses the node at path p
OwnerPath(p) ==
    LET n == CHOOSE n \in 1..(Len(p) - 1) :
                /\ NodeAt(SubSeq(p, 1, n))[1] \in Literals
                /\ \A m \in (n + 1)..(Len(p) - 1) :
                        NodeAt(SubSeq(p, 1, m))[1] \notin Literals
    IN  SubSeq(p, 1, n)

HasOwner(p) == \E n \in 1..(Len(p) - 1) : NodeAt(SubSeq(p, 1, n))[1] \in Literals

\* the places in the trace where eval_seq was called on a scalar or key-value
\* clause of the literal at path lit
SlotRequests(lit) ==
    {k \in DOMAIN trace :
        /\ trace[k][1] = "eval"
        /\ NodeAt(trace[k][2])[1] \in ShapeKinds
        /\ HasOwner(trace[k][2])
        /\ OwnerPath(trace[k][2]) = lit}

\* the place in the trace where the literal at path lit was entered last
LastEntry(lit) ==
    CHOOSE k \in DOMAIN trace :
        /\ trace[k] = <<"eval", lit>>
        /\ \A j \in DOMAIN trace : trace[j] = <<"eval", lit>> => j <= k

\* the span of the first scalar or key-value clause that the evaluation in
\* progress of the literal at path lit reached
Committer(lit) ==
    LET S == {k \in SlotRequests(lit) : k > LastEntry(lit)}
    IN  trace[CHOOSE k \in S : \A j \in S : k <= j][2]

---------------------------------------------------------------------------
(* C1: a brace literal's accumulator starts as SetOrRecord and moves only  *)
(* to Set, at a scalar clause's slot request, or to Record, at a key-value *)
(* clause's slot request, and then keeps its variant and evidence span; a  *)
(* bracket literal's accumulator starts as List and stays List.            *)

KeepsVariant(o, o2) ==
    CASE o[1] = "SetOrRecord" -> o2[1] \in {"SetOrRecord", "Set", "Record"}
      [] o[1] = "Set" -> o2[1] = "Set" /\ o2[2] = o[2]
      [] o[1] = "Record" -> o2[1] = "Record" /\ o2[2] = o[2]
      [] o[1] = "List" -> o2[1] = "List"

C1_Owned(stk, os) ==
    /\ Len(Owners(stk)) = Len(os)
    /\ \A i \in DOMAIN os :
          IF Owners(stk)[i].node[1] = "BraceLit"
          THEN os[i][1] \in {"SetOrRecord", "Set", "Record"}
          ELSE os[i][1] = "List"

C1_Step ==
    /\ \A i \in DOMAIN outs \cap DOMAIN outs' :
          /\ KeepsVariant(outs[i], outs'[i])
          /\ outs[i][1] = "SetOrRecord" /\ outs'[i][1] = "Set" =>
                /\ i = Len(outs) /\ Kind = "Seq::Elem" /\ Top.pc = "start"
                /\ outs'[i] = SeqOutSet(Top.path, <<>>)
          /\ outs[i][1] = "SetOrRecord" /\ outs'[i][1] = "Record" =>
                /\ i = Len(outs) /\ Kind = "Seq::Assoc" /\ Top.pc = "start"
                /\ outs'[i] = SeqOutRecord(Top.path, <<>>, <<>>)
    /\ \A i \in DOMAIN outs' \ DOMAIN outs :
          /\ Kind \in Literals
          /\ outs'[i] = IF Kind = "BraceLit" THEN SeqOutSetOrRecord
                        ELSE SeqOutList(<<>>)

C1_AccumulatorCommitsOnce ==
    [][C1_Step /\ C1_Owned(stack, outs) /\ C1_Owned(stack', outs')]_vars

\* a record accumulator that has accepted a second pair after committing
C1_Witness ==
    \E i \in DOMAIN outs :
        /\ outs[i][1] = "Record" /\ outs[i][2] = Append(RootPath, <<"seqs", 1>>)
        /\ Len(outs[i][3]) >= 2

---------------------------------------------------------------------------
(* C2: when the evaluation of a Let expression returns, with a value or    *)
(* with an error, the environment holds exactly the bindings it held       *)
(* before the Let was evaluated.                                           *)

C2_LetRestoresEnv ==
    Done /\ prog[1] = "Let" /\ ~IsPanic(ret) => env = env0

---------------------------------------------------------------------------
(* C3: a key-value clause that reaches a Set accumulator, or a scalar      *)
(* clause that reaches a Record accumulator, fails with an error at the    *)
(* clause whose note is the span of the clause that committed the          *)
(* accumulator; a key-value clause that reaches a List accumulator fails   *)
(* with the help text about '{}' and '[]' and no note.  Nothing is         *)
(* appended, and the literal returns that error.                           *)

ShapeError(span, msg, note, help) ==
    Err([msg |-> msg, span |-> span, note |-> note, help |-> help])

C3_Step ==
    /\ Running /\ Top.pc = "start" /\ Kind = "Seq::Assoc" /\ TopOut[1] = "Set" =>
          /\ ret' = ShapeError(Top.path, "Expected scalar element, not key-value.",
                               Committer(OwnerPath(Top.path)), "")
          /\ outs' = outs /\ stack' = Pop(stack)
    /\ Running /\ Top.pc = "start" /\ Kind = "Seq::Elem" /\ TopOut[1] = "Record" =>
          /\ ret' = ShapeError(Top.path, "Expected key-value, not a scalar element.",
                               Committer(OwnerPath(Top.path)), "")
          /\ outs' = outs /\ stack' = Pop(stack)
    /\ Running /\ Top.pc = "start" /\ Kind = "Seq::Assoc" /\ TopOut[1] = "List" =>
          /\ ret' = ShapeError(Top.path, "Expected scalar element, not key-value.",
                               NoSpan,
                               "Key-value pairs are allowed in records, which are enclosed in '{}', not '[]'.")
          /\ outs' = outs /\ stack' = Pop(stack)
    /\ Running /\ Kind \notin {"Lam"} /\ IsErr(ret) =>
          ret' = ret /\ stack' = Pop(stack)

C3_ShapeConflictFails == [][C3_Step]_vars

\* a literal of three clauses that failed at its third: the note names the
\* first clause, not the second
C3_Witness ==
    /\ Done /\ prog[1] = "BraceLit" /\ Len(prog[2].seqs) = 3
    /\ IsErr(ret)
    /\ ret[2].msg = "Expected scalar element, not key-value."
    /\ ret[2].span = Append(RootPath, <<"seqs", 3>>)
    /\ ret[2].note = Append(RootPath, <<"seqs", 1>>)
    /\ NodeAt(Append(RootPath, <<"seqs", 2>>))[1] = "Seq::Elem"
    /\ \E k \in DOMAIN trace :
          trace[k] = <<"ret", Append(RootPath, <<"seqs", 2>>), Ok(Unit)>>

---------------------------------------------------------------------------
(* C4: a brace literal that returns without any scalar or key-value clause *)
(* of its own having been reached (the empty literal, and a literal whose  *)
(* clauses accepted no element) evaluates to the empty Set.                *)

C4_UndeterminedIsEmptySet ==
    Done /\ prog[1] = "BraceLit" /\ IsOk(ret) /\ SlotRequests(RootPath) = {}
        => ret = Ok(VSet({}))

\* a brace literal with clauses that accepted nothing has returned
C4_Witness ==
    /\ Done /\ prog[1] = "BraceLit" /\ Len(prog[2].seqs) >= 2
    /\ SlotRequests(RootPath) = {}
    /\ ret = Ok(VSet({}))

---------------------------------------------------------------------------
(* More of the history: parents, and what a node returned.                 *)

Parent(p) == SubSeq(p, 1, Len(p) - 1)
Role(p) == p[Len(p)][1]
Child(p, role, i) == Append(p, <<role, i>>)

IsEval(k, p) == trace[k] = <<"eval", p>>
IsRet(k, p) == trace[k][1] = "ret" /\ trace[k][2] = p
HasNext(k) == k < Len(trace)

\* the result of the latest return from the node at path p before place k
ReturnedBefore(p, k) ==
    LET S == {j \in 1..(k - 1) : IsRet(j, p)}
    IN  trace[CHOOSE j \in S : \A i \in S : i <= j][3]

\* the result the node at path p returned last
Returned(p) == ReturnedBefore(p, Len(trace) + 1)
HasReturned(p) == \E j \in DOMAIN trace : IsRet(j, p)

IsBoolResult(r, b) == r[1] = "Ok" /\ r[2][1] = "Bool" /\ r[2][2] = b
IsOkOf(r, variant) == r[1] = "Ok" /\ r[2][1] = variant

Unsupported == Err(Error("The binary operator is not supported for this value."))

---------------------------------------------------------------------------
(* C5, as stated: for every Map m, the Union of m with the empty brace     *)
(* literal {} succeeds and yields m, in both operand orders.               *)

Lhs == Child(RootPath, "lhs", 0)
Rhs == Child(RootPath, "rhs", 0)

\* the program is m union {} or {} union m, and m evaluated to a Map
C5_Case ==
    /\ Done /\ prog[1] = "BinOp" /\ prog[2].op = "Union"
    /\ \/ prog[2].rhs = Empty /\ HasReturned(Lhs) /\ IsOkOf(Returned(Lhs), "Map")
       \/ prog[2].lhs = Empty /\ HasReturned(Rhs) /\ IsOkOf(Returned(Rhs), "Map")

C5_UnionWithEmptyLiteral ==
    C5_Case => ret = IF prog[2].rhs = Empty THEN Returned(Lhs) ELSE Returned(Rhs)

(* C5, amended: for every Map m, the Union of m with the empty brace       *)
(* literal {} fails in both operand orders as an unsupported operator,     *)
(* because {} evaluates to the empty Set; the Union of m with the empty    *)
(* Map value yields m in both operand orders.                              *)

C5_UnionWithEmptyLiteralFails ==
    /\ C5_Case => ret = Unsupported
    /\ BinopDone /\ binop_in[2].op = "Union" /\ binop_in[2].lhs[1] = "Map"
            /\ binop_in[2].rhs[1] = "Map" =>
          /\ binop_in[2].rhs[2] = EmptyMap => ret = Ok(binop_in[2].lhs)
          /\ binop_in[2].lhs[2] = EmptyMap => ret = Ok(binop_in[2].rhs)

\* {b: 2, a: 1} union {} has returned
C5_Witness ==
    /\ C5_Case /\ prog[2].rhs = Empty
    /\ DOMAIN Returned(Lhs)[2][2] = {VString("a"), VString("b")}
    /\ Returned(Rhs) = Ok(VSet({}))
    /\ ret = Unsupported

---------------------------------------------------------------------------
(* C6: for Maps xs and ys, Union(xs, ys) is the Map whose keys are those   *)
(* of xs and of ys, with the value of ys where ys has the key and the      *)
(* value of xs otherwise; the operands are as they were.                   *)

RightBiased(r, xs, ys) ==
    /\ r[1] = "Ok" /\ r[2][1] = "Map"
    /\ DOMAIN r[2][2] = DOMAIN xs \cup DOMAIN ys
    /\ \A k \in DOMAIN r[2][2] :
          r[2][2][k] = IF k \in DOMAIN ys THEN ys[k] ELSE xs[k]

C6_MapUnionRightBiased ==
    /\ BinopDone /\ binop_in[2].op = "Union" /\ binop_in[2].lhs[1] = "Map"
            /\ binop_in[2].rhs[1] = "Map" =>
          RightBiased(ret, binop_in[2].lhs[2], binop_in[2].rhs[2])
    /\ Done /\ prog[1] = "BinOp" /\ prog[2].op = "Union"
            /\ HasReturned(Lhs) /\ IsOkOf(Returned(Lhs), "Map")
            /\ HasReturned(Rhs) /\ IsOkOf(Returned(Rhs), "Map") =>
          RightBiased(ret, Returned(Lhs)[2][2], Returned(Rhs)[2][2])

\* a union whose operands share a key with different values, the left
\* operand holding a key of its own
C6_Witness ==
    /\ BinopDone /\ binop_in[2].op = "Union"
    /\ binop_in[2].lhs[1] = "Map" /\ binop_in[2].rhs[1] = "Map"
    /\ \E k \in DOMAIN binop_in[2].lhs[2] \cap DOMAIN binop_in[2].rhs[2] :
          /\ binop_in[2].lhs[2][k] # binop_in[2].rhs[2][k]
          /\ ret[2][2][k] = binop_in[2].rhs[2][k]
    /\ \E k \in DOMAIN binop_in[2].lhs[2] : k \notin DOMAIN binop_in[2].rhs[2]

---------------------------------------------------------------------------
(* C7: a conditional evaluates its condition and then exactly one branch:  *)
(* the then-branch after true, the else-branch after false, and returns    *)
(* what the branch returns; a condition that is no Bool fails without a    *)
(* branch being evaluated, and a branch is evaluated at no other time.     *)

C7_At(k) ==
    LET q == trace[k][2]
        p == Parent(q)
    IN  /\ trace[k][1] = "ret" /\ Role(q) = "if_" /\ HasNext(k) =>
              LET r == trace[k][3]
              IN  trace[k + 1] =
                    IF IsErr(r) THEN <<"ret", p, r>>
                    ELSE IF IsBoolResult(r, TRUE)
                    THEN <<"eval", Child(p, "then", 0)>>
                    ELSE IF IsBoolResult(r, FALSE)
                    THEN <<"eval", Child(p, "else_", 0)>>
                    ELSE <<"ret", p, Err(Error("Condition should be boolean."))>>
        /\ trace[k][1] = "eval" /\ Role(q) = "then" =>
              /\ IsRet(k - 1, Child(p, "if_", 0))
              /\ IsBoolResult(trace[k - 1][3], TRUE)
        /\ trace[k][1] = "eval" /\ Role(q) = "else_" =>
              /\ IsRet(k - 1, Child(p, "if_", 0))
              /\ IsBoolResult(trace[k - 1][3], FALSE)
        /\ trace[k][1] = "ret" /\ Role(q) \in {"then", "else_"} /\ HasNext(k) =>
              trace[k + 1] = <<"ret", p, trace[k][3]>>

C7_OneBranchEvaluated == \A k \in DOMAIN trace : C7_At(k)

\* the condition was false and the then-branch, which fails, was not
\* evaluated: the conditional returned the value of its else-branch
C7_Witness ==
    /\ Done /\ prog = IfThenElse(F, Vy, I1)
    /\ ret = Ok(VInt(Big(1)))
    /\ \A k \in DOMAIN trace : trace[k][2] # Child(RootPath, "then", 0)

---------------------------------------------------------------------------
(* C8: a binary operator evaluates its left operand, then, when that       *)
(* succeeded, always its right operand, and only then applies the          *)
(* operator; the first error is the one returned.                          *)

C8_At(k) ==
    LET q == trace[k][2]
        p == Parent(q)
    IN  /\ trace[k][1] = "eval" /\ NodeAt(q)[1] = "BinOp" /\ HasNext(k) =>
              IsEval(k + 1, Child(q, "lhs", 0))
        /\ trace[k][1] = "ret" /\ Role(q) = "lhs" /\ HasNext(k) =>
              trace[k + 1] = IF IsOk(trace[k][3])
                             THEN <<"eval", Child(p, "rhs", 0)>>
                             ELSE <<"ret", p, trace[k][3]>>
        /\ trace[k][1] = "eval" /\ Role(q) = "rhs" =>
              IsRet(k - 1, Child(p, "lhs", 0)) /\ IsOk(trace[k - 1][3])
        /\ trace[k][1] = "ret" /\ Role(q) = "rhs" /\ HasNext(k) =>
              trace[k + 1] =
                IF IsOk(trace[k][3])
                THEN <<"ret", p,
                       eval_binop(NodeAt(p)[2].op, p,
                                  ReturnedBefore(Child(p, "lhs", 0), k)[2],
                                  trace[k][3][2])>>
                ELSE <<"ret", p, trace[k][3]>>

C8_OperandsLeftToRight == \A k \in DOMAIN trace : C8_At(k)

\* false && y, with y unbound: the right operand was evaluated and its
\* error returned
C8_Witness ==
    /\ Done /\ prog = BinOp("And", F, Vy)
    /\ Returned(Lhs) = Ok(VBool(FALSE))
    /\ ret = Err(Error("Variable not found."))

---------------------------------------------------------------------------
(* C9: a call evaluates the callee, then every argument in source order,   *)
(* and stops at the first error; only after the last argument is a Builtin *)
(* callee invoked, once, on the argument values in source order, or any    *)
(* other callee rejected as not callable.                                  *)

\* the values the first n arguments of the call at path p returned last
\* before place k
ArgValues(p, n, k) ==
    [i \in 1..n |-> ReturnedBefore(Child(p, "args", i), k)[2]]

\* what the call at path p returns once its last argument is evaluated
Dispatched(p, k) ==
    LET fun == ReturnedBefore(Child(p, "function", 0), k)[2]
        args == ArgValues(p, Len(NodeAt(p)[2].args), k)
    IN  IF fun[1] = "Builtin" THEN CallBuiltin(fun[2], args)
        ELSE Err(Error("Can only call functions."))

C9_At(k) ==
    LET q == trace[k][2]
        p == Parent(q)
        i == q[Len(q)][2]
    IN  /\ trace[k][1] = "eval" /\ NodeAt(q)[1] = "Call" /\ HasNext(k) =>
              IsEval(k + 1, Child(q, "function", 0))
        /\ trace[k][1] = "ret" /\ Role(q) \in {"function", "args"} /\ HasNext(k) =>
              trace[k + 1] =
                IF IsErr(trace[k][3]) THEN <<"ret", p, trace[k][3]>>
                ELSE IF i < Len(NodeAt(p)[2].args)
                THEN <<"eval", Child(p, "args", i + 1)>>
                ELSE <<"ret", p, Dispatched(p, k + 1)>>
        /\ trace[k][1] = "eval" /\ Role(q) = "args" =>
              /\ IsRet(k - 1, IF i = 1 THEN Child(p, "function", 0)
                              ELSE Child(p, "args", i - 1))
              /\ IsOk(trace[k - 1][3])

\* the call at the root: the builtin was invoked once if the callee and
\* all arguments evaluated and the callee is a Builtin, and not otherwise
C9_Invocations ==
    Done /\ prog[1] = "Call" /\ ~IsPanic(ret) =>
        LET n == Len(prog[2].args)
            last == IF n = 0 THEN Child(RootPath, "function", 0)
                    ELSE Child(RootPath, "args", n)
        IN  IF HasReturned(last) /\ IsOkOf(Returned(last), "Builtin") /\ n = 0
            THEN calls = << <<Returned(last)[2][2].name, <<>> >> >>
            ELSE IF /\ n > 0 /\ HasReturned(last) /\ IsOk(Returned(last))
                    /\ IsOkOf(Returned(Child(RootPath, "function", 0)), "Builtin")
            THEN calls = << <<Returned(Child(RootPath, "function", 0))[2][2].name,
                              ArgValues(RootPath, n, Len(trace))>> >>
            ELSE calls = <<>>

C9_CallOrder == C9_Invocations /\ \A k \in DOMAIN trace : C9_At(k)

\* {a: 1}.get("b", "a") has returned its default, the second argument
C9_Witness ==
    /\ Done /\ prog = Call(Field("get", MapA), <<Sb, Sa>>)
    /\ calls = << <<"Map.get", <<VString("b"), VString("a")>> >> >>
    /\ ret = Ok(VString("a"))

---------------------------------------------------------------------------
(* C10: Add and Mul of two Ints return the mathematical result exactly     *)
(* when it lies in [-2^63, 2^63 - 1] and the operator's overflow error,    *)
(* with the operator's span, otherwise; i64::MAX + 1 and i64::MAX * 2      *)
(* fail.  Operands of one digit are checked against the arithmetic of the  *)
(* checker itself.                                                         *)

IsSmall(x) == Len(x.mag) <= 1
Native(x) == IF x.mag = <<>> THEN 0 ELSE IF x.neg THEN -x.mag[1] ELSE x.mag[1]

C10_Arith(op, x, y, z, msg) ==
    LET c == binop_in[2]
    IN  BinopDone /\ c.op = op /\ c.lhs[1] = "Int" /\ c.rhs[1] = "Int" =>
          /\ ret = IF InI64(z) THEN Ok(VInt(z))
                   ELSE Err(SpanError(c.op_span, msg))
          /\ IsSmall(x) /\ IsSmall(y) =>
                ret = Ok(VInt(Big(IF op = "Add" THEN Native(x) + Native(y)
                                  ELSE Native(x) * Native(y))))
          /\ x = I64Max /\ y = Big(IF op = "Add" THEN 1 ELSE 2) => IsErr(ret)
          /\ x = I64Min /\ y = Big(-1) => IsErr(ret)
          /\ op = "Mul" /\ x = Pow32 /\ y = Pow31 => IsErr(ret)
          /\ op = "Mul" /\ x = BigMul(Pow32, Big(-1)) /\ y = Pow31 =>
                ret = Ok(VInt(I64Min))
          /\ op = "Add" /\ x = I64Min /\ y = I64Max => ret = Ok(VInt(Big(-1)))

C10_CheckedArithmetic ==
    LET x == binop_in[2].lhs[2]
        y == binop_in[2].rhs[2]
    IN  /\ C10_Arith("Add", x, y, BigAdd(x, y), "Addition would overflow.")
        /\ C10_Arith("Mul", x, y, BigMul(x, y), "Multiplication would overflow.")

\* i64::MAX + 1 has failed
C10_Witness ==
    /\ BinopDone /\ binop_in[2].op = "Add"
    /\ binop_in[2].lhs = VInt(I64Max) /\ binop_in[2].rhs = VInt(Big(1))
    /\ ret = Err(SpanError(RootPath, "Addition would overflow."))

---------------------------------------------------------------------------
(* C11: for every Set s and List l, Union(s, l) is the Set of the members  *)
(* of s and the distinct elements of l; Union(l, s) and Union(l, l2) for   *)
(* Lists l, l2 fail as an unsupported operator.                            *)

\* x is a member of the set or an element of the list
MemberOf(x, s, l) == x \in s \/ \E i \in DOMAIN l : l[i] = x

C11_Union(r, lhs, rhs) ==
    /\ lhs[1] = "Set" /\ rhs[1] = "List" =>
          /\ IsOkOf(r, "Set")
          /\ \A x \in r[2][2] : MemberOf(x, lhs[2], rhs[2])
          /\ \A x \in lhs[2] : x \in r[2][2]
          /\ \A i \in DOMAIN rhs[2] : rhs[2][i] \in r[2][2]
    /\ lhs[1] = "List" /\ rhs[1] \in {"Set", "List"} => r = Unsupported

C11_UnionSetListAsymmetric ==
    /\ BinopDone /\ binop_in[2].op = "Union" =>
          /\ C11_Union(ret, binop_in[2].lhs, binop_in[2].rhs)
          /\ binop_in[2].lhs = VSet({VInt(Big(1)), VInt(Big(2))})
                /\ binop_in[2].rhs[1] = "List" /\ Len(binop_in[2].rhs[2]) = 3 =>
                ret = Ok(VSet({VInt(Big(1)), VInt(Big(2)), VInt(Big(3))}))
    /\ Done /\ prog[1] = "BinOp" /\ prog[2].op = "Union"
            /\ HasReturned(Lhs) /\ IsOk(Returned(Lhs))
            /\ HasReturned(Rhs) /\ IsOk(Returned(Rhs)) =>
          C11_Union(ret, Returned(Lhs)[2], Returned(Rhs)[2])

\* {1, 2} union [2, 3, 3] has returned {1, 2, 3}
C11_Witness ==
    /\ BinopDone /\ binop_in[2].op = "Union"
    /\ binop_in[2].lhs = VSet({VInt(Big(1)), VInt(Big(2))})
    /\ binop_in[2].rhs = VList(<<VInt(Big(2)), VInt(Big(3)), VInt(Big(3))>>)
    /\ Cardinality(ret[2][2]) = 3

---------------------------------------------------------------------------
(* C12: a For clause whose body does not fail evaluates its collection     *)
(* once and its body once per element, in stored order: by position for a  *)
(* List, ascending for a Set, by ascending key for a Map.  The binders     *)
(* hold the element while the body runs and are popped before the next     *)
(* iteration; the appends of the bodies occur in the order of iteration.   *)

CollSize(coll) ==
    CASE coll[1] = "List" -> Len(coll[2])
      [] coll[1] = "Set" -> Cardinality(coll[2])
      [] coll[1] = "Map" -> Cardinality(DOMAIN coll[2])

\* the i-th smallest element of S in the order of values
NthOf(S, i) ==
    CHOOSE e \in S : Cardinality({y \in S : ValueCmp(y, e) < 0}) = i - 1

\* the bindings of the i-th iteration over coll
NthItem(idents, coll, i) ==
    CASE coll[1] = "List" -> << <<idents[1], coll[2][i]>> >>
      [] coll[1] = "Set" -> << <<idents[1], NthOf(coll[2], i)>> >>
      [] coll[1] = "Map" ->
            LET k == NthOf(DOMAIN coll[2], i)
            IN  << <<idents[1], k>>, <<idents[2], coll[2][k]>> >>

\* the place in the trace where the node at path p was entered last
LastEval(p) ==
    CHOOSE k \in DOMAIN trace :
        IsEval(k, p) /\ \A j \in DOMAIN trace : IsEval(j, p) => j <= k

\* how often the node at path q was entered since p was entered last
EvalsSince(p, q) ==
    Cardinality({k \in DOMAIN trace : k > LastEval(p) /\ IsEval(k, q)})

C12_Step ==
    Running /\ Kind = "Seq::For" =>
        LET p == Top.path
            coll == Returned(Child(p, "collection", 0))[2]
            n == EvalsSince(p, Child(p, "body", 0))
        IN  /\ Top.pc = "iter" /\ Len(stack') > Len(stack) =>
                  /\ n < CollSize(coll)
                  /\ env' = env \o NthItem(N.idents, coll, n + 1)
            /\ Top.pc = "body" /\ IsOk(ret) =>
                  /\ env = env' \o NthItem(N.idents, coll, n)
            /\ Top.pc = "iter" /\ Len(stack') < Len(stack) =>
                  /\ ret' = Ok(Unit)
                  /\ n = CollSize(coll)
                  /\ EvalsSince(p, Child(p, "collection", 0)) = 1
                  /\ env' = env

\* the value bound to ident by the bindings of one iteration
BoundIn(bindings, ident) ==
    bindings[CHOOSE i \in DOMAIN bindings :
                /\ bindings[i][1] = ident
                /\ \A j \in DOMAIN bindings : bindings[j][1] = ident => j <= i][2]

\* [for ... in coll: id] has returned the values id took, in order
C12_Result ==
    LET for == prog[2].seqs[1]
        coll == Returned(Append(Child(RootPath, "seqs", 1), <<"collection", 0>>))[2]
    IN  /\ Done /\ prog[1] = "BracketLit" /\ IsOk(ret)
        /\ Len(prog[2].seqs) = 1 /\ for[1] = "Seq::For"
        /\ for[2].body[1] = "Seq::Elem" /\ for[2].body[2].value[1] = "Var"
        /\ \E i \in DOMAIN for[2].idents :
              for[2].idents[i] = for[2].body[2].value[2].var
        => ret[2] = VList([i \in 1..CollSize(coll) |->
                            BoundIn(NthItem(for[2].idents, coll, i),
                                    for[2].body[2].value[2].var)])

C12_ForIteratesInOrder == [][C12_Step /\ C12_Result']_vars

\* [for k, v in {b: 2, a: 1}: v] has returned [1, 2]
C12_Witness ==
    /\ Done /\ prog = BracketLit(<<SeqFor(<<"k", "v">>, MapAB, SeqElem(Vv))>>)
    /\ ret = Ok(VList(<<VInt(Big(1)), VInt(Big(2))>>))
    /\ env = env0

---------------------------------------------------------------------------
(* C13: a brace literal that ends as a Record with the pairs (k_1, v_1),   *)
(* ..., (k_n, v_n), accumulated in evaluation order, returns the Map whose *)
(* keys are the distinct k_i, each mapped to the v_j of the largest j      *)
(* with k_j = k.                                                           *)

LastWins(m, keys, values) ==
    /\ DOMAIN m = {keys[i] : i \in DOMAIN keys}
    /\ \A i \in DOMAIN keys :
          (\A j \in DOMAIN keys : keys[j] = keys[i] => j <= i) =>
              m[keys[i]] = values[i]

C13_Step ==
    /\ Running /\ Kind = "BraceLit" /\ Top.pc = "seqs" /\ ~IsErr(ret)
            /\ Top.idx > Len(N.seqs) /\ TopOut[1] = "Record" =>
          /\ IsOkOf(ret', "Map")
          /\ LastWins(ret'[2][2], TopOut[3], TopOut[4])
    /\ Running /\ Kind = "Seq::Assoc" /\ Top.pc = "value" /\ IsOk(ret) =>
          /\ TopOut[1] = "Record" /\ outs'[Len(outs)][1] = "Record"
          /\ outs'[Len(outs)][3] =
                Append(TopOut[3], Returned(Child(Top.path, "key", 0))[2])
          /\ outs'[Len(outs)][4] = Append(TopOut[4], ret[2])

\* {a: 1, if true: a: 2} is {a: 2}, and {if true: a: 2, a: 1} is {a: 1}
C13_Result ==
    /\ Done /\ prog = BraceLit(<<SeqAssoc(Sa, I1), SeqIf(T, SeqAssoc(Sa, I2))>>) =>
          ret = Ok(VMap([k \in {VString("a")} |-> VInt(Big(2))]))
    /\ Done /\ prog = BraceLit(<<SeqIf(T, SeqAssoc(Sa, I2)), SeqAssoc(Sa, I1)>>) =>
          ret = Ok(VMap([k \in {VString("a")} |-> VInt(Big(1))]))

C13_RepeatedKeyOverwrites == [][C13_Step /\ C13_Result']_vars

\* {a: 1, if true: a: 2} has returned {a: 2}
C13_Witness ==
    /\ Done /\ prog = BraceLit(<<SeqAssoc(Sa, I1), SeqIf(T, SeqAssoc(Sa, I2))>>)
    /\ ret = Ok(VMap([k \in {VString("a")} |-> VInt(Big(2))]))

---------------------------------------------------------------------------
(* C14: field access on a Map resolves the names contains and get to the   *)
(* builtins, also when the Map has such a key; any other name returns the  *)
(* value stored under it, or fails as no such field.  The builtins answer  *)
(* for the Map they were resolved on: contains(k) is true exactly when k   *)
(* is a key, get(k, d) is the stored value when k is a key and d           *)
(* otherwise.                                                              *)

IsBuiltinOn(r, name, base) ==
    IsOkOf(r, "Builtin") /\ r[2][2].name = name /\ r[2][2].closed = base

\* what the field access field on the Map value base returns, as claimed
C14_Field(r, field, base) ==
    CASE field = "contains" -> IsBuiltinOn(r, "Map.contains", base)
      [] field = "get" -> IsBuiltinOn(r, "Map.get", base)
      [] OTHER ->
            IF \E k \in DOMAIN base[2] : k = VString(field)
            THEN r = Ok(base[2][VString(field)])
            ELSE r = Err(Error("No such field in this value."))

Callee == Child(RootPath, "function", 0)
Arg(i) == Child(RootPath, "args", i)

C14_MapFields ==
    /\ Done /\ prog[1] = "Field" /\ HasReturned(Child(RootPath, "inner", 0))
            /\ IsOkOf(Returned(Child(RootPath, "inner", 0)), "Map") =>
          C14_Field(ret, prog[2].field, Returned(Child(RootPath, "inner", 0))[2])
    /\ Done /\ prog[1] = "Call" /\ prog[2].function[1] = "Field"
            /\ HasReturned(Child(Callee, "inner", 0))
            /\ IsOkOf(Returned(Child(Callee, "inner", 0)), "Map")
            /\ (\A i \in DOMAIN prog[2].args :
                    HasReturned(Arg(i)) /\ IsOk(Returned(Arg(i)))) =>
          LET base == Returned(Child(Callee, "inner", 0))[2]
              field == prog[2].function[2].field
              n == Len(prog[2].args)
          IN  /\ C14_Field(Returned(Callee), field, base)
              /\ field = "contains" /\ n = 1 =>
                    ret = Ok(VBool(\E k \in DOMAIN base[2] : k = Returned(Arg(1))[2]))
              /\ field = "get" /\ n = 2 =>
                    ret = IF \E k \in DOMAIN base[2] : k = Returned(Arg(1))[2]
                          THEN Ok(base[2][Returned(Arg(1))[2]])
                          ELSE Returned(Arg(2))

\* {get: 1}.get has resolved to the builtin, not to 1
C14_Witness ==
    /\ Done /\ prog = Field("get", MapGet)
    /\ IsBuiltinOn(ret, "Map.get", VMap([k \in {VString("get")} |-> VInt(Big(1))]))

---------------------------------------------------------------------------
(* C15: a builtin called with its own number of arguments succeeds, and    *)
(* called with any other number fails with the arity error that names it:  *)
(* String.len takes 0 arguments, Map.contains and List.contains 1,         *)
(* Map.get 2.                                                              *)

Arity(name) ==
    CASE name = "String.len" -> 0
      [] name \in {"Map.contains", "List.contains"} -> 1
      [] name = "Map.get" -> 2

ArityError(name) ==
    CASE name = "String.len" -> "String.len takes no arguments."
      [] name = "Map.contains" -> "Map.contains takes a single argument."
      [] name = "List.contains" -> "List.contains takes a single argument."
      [] name = "Map.get" -> "Map.get takes two arguments."

\* the call at the root has a Builtin callee and its arguments evaluated
C15_Case ==
    /\ Done /\ prog[1] = "Call"
    /\ HasReturned(Callee) /\ IsOkOf(Returned(Callee), "Builtin")
    /\ \A i \in DOMAIN prog[2].args : HasReturned(Arg(i)) /\ IsOk(Returned(Arg(i)))

C15_BuiltinArity ==
    C15_Case =>
        LET name == Returned(Callee)[2][2].name
        IN  IF Len(prog[2].args) = Arity(name) THEN IsOk(ret)
            ELSE ret = Err(Error(ArityError(name)))

\* {a: 1}.contains("a", "b") has failed with the arity error of Map.contains
C15_Witness ==
    /\ C15_Case /\ prog = Call(Field("contains", MapA), <<Sa, Sb>>)
    /\ ret = Err(Error("Map.contains takes a single argument."))

---------------------------------------------------------------------------
(* C16: let x = e in b evaluates e in the environment as it was before the *)
(* binding, evaluates b with x bound innermost, and removes the binding    *)
(* when b has returned a value: a reference to x resolves to the innermost *)
(* binding in force, so let x = 1 in (let x = 2 in x) is 2 and a reference *)
(* to x after the inner let resolves to the outer binding again.           *)

\* r is what a reference to name resolves to in environment e
ResolvesIn(r, e, name) ==
    LET S == {i \in DOMAIN e : e[i][1] = name}
    IN  IF S = {} THEN r = Err(Error("Variable not found."))
        ELSE \E i \in S : (\A j \in S : j <= i) /\ r = Ok(e[i][2])

C16_Step ==
    /\ Running /\ Kind = "Let" =>
          /\ Top.pc = "start" =>
                env' = env /\ trace'[Len(trace')] = <<"eval", Child(Top.path, "value", 0)>>
          /\ Top.pc = "value" /\ IsOk(ret) =>
                /\ env' = Append(env, <<N.ident, ret[2]>>)
                /\ trace'[Len(trace')] = <<"eval", Child(Top.path, "body", 0)>>
          /\ Top.pc = "body" /\ IsOk(ret) =>
                /\ env = Append(env', <<N.ident, Returned(Child(Top.path, "value", 0))[2]>>)
                /\ ret' = ret
    /\ Running /\ Kind = "Var" => ResolvesIn(ret', env, N.var)

C16_Result ==
    /\ Done /\ prog = Let("x", I1, Let("x", I2, Vx)) => ret = Ok(VInt(Big(2)))
    /\ Done /\ prog = Let("x", I1, BinOp("Add", Let("x", I2, Vx), Vx)) =>
          ret = Ok(VInt(Big(3)))
    /\ Done /\ prog = Let("x", I1, BinOp("Add", Vx, Let("x", I2, Vx))) =>
          ret = Ok(VInt(Big(3)))
    /\ Done /\ prog = Let("x", I1, Let("x", Vx, Vx)) => ret = Ok(VInt(Big(1)))
    /\ Done /\ prog = Let("x", Vx, Vx) =>
          ret = IF env0 = <<>> THEN Err(Error("Variable not found."))
                ELSE Ok(env0[Len(env0)][2])

C16_LetScoping == [][C16_Step /\ C16_Result']_vars

\* let x = 1 in (let x = 2 in x) + x has returned 3
C16_Witness ==
    /\ Done /\ prog = Let("x", I1, BinOp("Add", Let("x", I2, Vx), Vx))
    /\ ret = Ok(VInt(Big(3)))

---------------------------------------------------------------------------
(* C17: no evaluation panics except at a lambda: the accumulator of a      *)
(* brace literal is never List and that of a bracket literal always List,  *)
(* the keys and values of a Record accumulator are equally many in every   *)
(* state, and every builtin is closed over a value of the variant it was   *)
(* made for.                                                               *)

WellFormedBuiltin(v) ==
    v[1] = "Builtin" =>
        CASE v[2].name \in {"Map.contains", "Map.get"} -> v[2].closed[1] = "Map"
          [] v[2].name = "List.contains" -> v[2].closed[1] = "List"
          [] v[2].name = "String.len" -> v[2].closed[1] = "Int"
          [] OTHER -> FALSE

C17_NoInternalPanic ==
    /\ IsPanic(ret) =>
          /\ ret = Panic("not implemented: TODO: Define lambdas.")
          /\ trace[Len(trace)][1] = "ret"
          /\ NodeAt(trace[Len(trace)][2])[1] = "Lam"
    /\ C1_Owned(stack, outs)
    /\ \A i \in DOMAIN outs :
          outs[i][1] = "Record" => Len(outs[i][3]) = Len(outs[i][4])
    /\ IsOk(ret) => WellFormedBuiltin(ret[2])
    /\ \A i \in DOMAIN stack :
          stack[i].node[1] = "Call" /\ stack[i].tmp # <<>> =>
              WellFormedBuiltin(stack[i].tmp[1])

\* {a: 1, a: y} with y unbound: the value of the second pair has failed and
\* the accumulator holds the first pair only
C17_Witness ==
    /\ prog = BraceLit(<<SeqAssoc(Sa, I1), SeqAssoc(Sa, Vy)>>)
    /\ Running /\ Kind = "Seq::Assoc" /\ Top.pc = "value" /\ IsErr(ret)
    /\ TopOut[1] = "Record" /\ Len(TopOut[3]) = 1 /\ Len(TopOut[4]) = 1

---------------------------------------------------------------------------
(* C18: a scalar clause asks for the scalar slot before it evaluates its   *)
(* value, and a key-value clause for the key-value slot before it          *)
(* evaluates its key and then its value: on a conflict with the committed  *)
(* shape the clause returns the conflict error without evaluating its      *)
(* expressions, and an undetermined accumulator is committed before they   *)
(* are evaluated.                                                          *)

Entered(p) == trace' = Append(trace, <<"eval", p>>)
Failed(msg) ==
    /\ IsErr(ret') /\ ret'[2].msg = msg /\ ret'[2].span = Top.path
    /\ trace' = Append(trace, <<"ret", Top.path, ret'>>)
    /\ outs' = outs

C18_Step ==
    /\ Running /\ Kind = "Seq::Elem" /\ Top.pc = "start" =>
          IF TopOut[1] = "Record"
          THEN Failed("Expected key-value, not a scalar element.")
          ELSE /\ Entered(Child(Top.path, "value", 0))
               /\ outs'[Len(outs)] = IF TopOut[1] = "SetOrRecord"
                                     THEN SeqOutSet(Top.path, <<>>) ELSE TopOut
    /\ Running /\ Kind = "Seq::Assoc" /\ Top.pc = "start" =>
          IF TopOut[1] \in {"Set", "List"}
          THEN Failed("Expected scalar element, not key-value.")
          ELSE /\ Entered(Child(Top.path, "key", 0))
               /\ outs'[Len(outs)] = IF TopOut[1] = "SetOrRecord"
                                     THEN SeqOutRecord(Top.path, <<>>, <<>>)
                                     ELSE TopOut
    /\ Running /\ Kind = "Seq::Assoc" /\ Top.pc = "key" /\ IsOk(ret) =>
          Entered(Child(Top.path, "value", 0)) /\ outs' = outs

\* the expressions of a clause are evaluated right after the clause was
\* entered, the value of a key-value clause right after its key returned
C18_Order ==
    \A k \in DOMAIN trace :
        LET q == trace[k][2]
        IN  trace[k][1] = "eval" /\ Len(q) > 1 /\ NodeAt(Parent(q))[1] \in ShapeKinds =>
                IF Role(q) = "value" /\ NodeAt(Parent(q))[1] = "Seq::Assoc"
                THEN IsRet(k - 1, Child(Parent(q), "key", 0)) /\ IsOk(trace[k - 1][3])
                ELSE IsEval(k - 1, Parent(q))

\* {a: 1, y} and [y: 1] with y unbound fail on the shape, not on y
C18_Result ==
    /\ Done /\ prog = BraceLit(<<SeqAssoc(Sa, I1), SeqElem(Vy)>>) =>
          IsErr(ret) /\ ret[2].msg = "Expected key-value, not a scalar element."
    /\ Done /\ prog = BraceLit(<<SeqElem(I1), SeqAssoc(Vy, I1)>>) =>
          IsErr(ret) /\ ret[2].msg = "Expected scalar element, not key-value."
    /\ Done /\ prog = BracketLit(<<SeqAssoc(Vy, I1)>>) =>
          IsErr(ret) /\ ret[2].msg = "Expected scalar element, not key-value."

C18_SlotBeforeEvaluation == [][C18_Step /\ C18_Order' /\ C18_Result']_vars

\* {a: 1, y} with y unbound has failed on the shape; y was not evaluated
C18_Witness ==
    /\ Done /\ prog = BraceLit(<<SeqAssoc(Sa, I1), SeqElem(Vy)>>)
    /\ IsErr(ret) /\ ret[2].msg = "Expected key-value, not a scalar element."
    /\ \A k \in DOMAIN trace :
          trace[k][2] # Append(Child(RootPath, "seqs", 2), <<"value", 0>>)

---------------------------------------------------------------------------
(* C19: every call of eval or eval_seq that returns successfully leaves    *)
(* the environment as it found it, and no call pops or replaces a binding  *)
(* that existed when it was entered: as long as nothing has failed, the    *)
(* environment is the initial one followed by the bindings of the Let and  *)
(* For clauses whose bodies are being evaluated, outermost first.          *)

\* the bindings the call of frame f has pushed and not yet popped
PushedBy(f) ==
    IF f.pc # "body" THEN <<>>
    ELSE CASE f.node[1] \in {"Let", "Seq::Let"} ->
                << <<f.node[2].ident, Returned(Child(f.path, "value", 0))[2]>> >>
           [] f.node[1] = "Seq::For" ->
                NthItem(f.node[2].idents,
                        Returned(Child(f.path, "collection", 0))[2], f.idx)
           [] OTHER -> <<>>

RECURSIVE PushedFrom(_, _)
PushedFrom(stk, i) ==
    IF i > Len(stk) THEN <<>> ELSE PushedBy(stk[i]) \o PushedFrom(stk, i + 1)

NothingFailed ==
    \A k \in DOMAIN trace : trace[k][1] = "ret" => IsOk(trace[k][3])

C19_Balanced == NothingFailed => env = env0 \o PushedFrom(stack, 1)

\* a step of a call leaves the bindings of its callers in place
C19_Step == Running => IsPrefix(env0 \o PushedFrom(Pop(stack), 1), env')

C19_EnvRestored == [][C19_Step /\ C19_Balanced']_vars

\* {for k, v in {b: 2, a: 1}: v: k} has returned in a non-empty environment
C19_Witness ==
    /\ Done /\ prog = BraceLit(<<SeqFor(<<"k", "v">>, MapAB, SeqAssoc(Vv, Vk))>>)
    /\ IsOkOf(ret, "Map") /\ env0 # <<>> /\ env = env0

---------------------------------------------------------------------------
(* C20: an If clause whose condition is false and a For clause over an     *)
(* empty List, Set or Map return without evaluating their body and leave   *)
(* the accumulator as it was: an accumulator changes only at a scalar or   *)
(* key-value clause of its own literal, so a SetOrRecord accumulator stays *)
(* SetOrRecord and the next clause decides the shape of the literal.       *)

Skipped ==
    /\ ret' = Ok(Unit)
    /\ trace' = Append(trace, <<"ret", Top.path, Ok(Unit)>>)
    /\ outs' = outs

C20_Step ==
    /\ Running /\ Kind = "Seq::If" /\ Top.pc = "condition"
            /\ IsBoolResult(ret, FALSE) => Skipped
    /\ Running /\ Kind = "Seq::For" /\ Top.pc = "iter"
            /\ CollSize(Returned(Child(Top.path, "collection", 0))[2]) = 0 => Skipped
    /\ \A i \in DOMAIN outs \cap DOMAIN outs' :
          outs'[i] # outs[i] =>
              i = Len(outs) /\ Len(outs') = Len(outs) /\ Kind \in ShapeKinds

\* an accumulator none of whose literal's scalar or key-value clauses has
\* been reached is as it started
C20_Uncommitted ==
    \A i \in DOMAIN outs :
        LET lit == Owners(stack)[i]
        IN  (\A k \in SlotRequests(lit.path) : k < LastEntry(lit.path)) =>
                outs[i] = IF lit.node[1] = "BraceLit" THEN SeqOutSetOrRecord
                          ELSE SeqOutList(<<>>)

\* the first clause of the literal at the root has accepted no element
C20_FirstSkipped ==
    LET c == prog[2].seqs[1]
        p == Child(RootPath, "seqs", 1)
    IN  /\ HasReturned(p) /\ Returned(p) = Ok(Unit)
        /\ \/ /\ c[1] = "Seq::If"
              /\ IsBoolResult(Returned(Child(p, "condition", 0)), FALSE)
           \/ /\ c[1] = "Seq::For"
              /\ CollSize(Returned(Child(p, "collection", 0))[2]) = 0

\* a literal of a clause that accepts nothing and a scalar or a pair is the
\* literal of the scalar or the pair alone
C20_Result ==
    Done /\ prog[1] = "BraceLit" /\ Len(prog[2].seqs) = 2 /\ C20_FirstSkipped =>
        /\ prog[2].seqs[2] = SeqElem(I1) => ret = Ok(VSet({VInt(Big(1))}))
        /\ prog[2].seqs[2] = SeqAssoc(Sa, I1) =>
              ret = Ok(VMap([k \in {VString("a")} |-> VInt(Big(1))]))

C20_SkippedClauseCommitsNothing ==
    [][C20_Step /\ C20_Uncommitted' /\ C20_Result']_vars

\* {if false: 1, a: 1} has returned {a: 1}
C20_Witness ==
    /\ Done /\ prog = BraceLit(<<SeqIf(F, SeqElem(I1)), SeqAssoc(Sa, I1)>>)
    /\ ret = Ok(VMap([k \in {VString("a")} |-> VInt(Big(1))]))

=============================================================================
